---------------------------- MODULE Spec2Model ----------------------------
(***************************************************************************)
(* Montuoro/qld: Queensland course scaling and aggregate-to-ATAR lookup.   *)
(*                                                                         *)
(* Part I   the course scales application (qld_course_scales_app.py):      *)
(*          the subject records, the curve fitter, the boundary optimizer  *)
(*          and the GUI callbacks that edit a subject.                     *)
(* Part II  the lookup builder (build_lookup_final.py): the blend of the   *)
(*          reference years, the band distribution, the final table and    *)
(*          the reverse lookup.                                            *)
(*                                                                         *)
(* Numbers.  The program computes in binary floating point; the model      *)
(* computes in exact fixed point.  A raw score is an integer number of     *)
(* 1/XU, a scaled score of 1/YU, an aggregate of 1/AU; the units are       *)
(* chosen so that every value the code builds by halving, by a division    *)
(* by the grid sizes or by rounding to two decimals is an integer.         *)
(***************************************************************************)
EXTENDS Integers, Sequences, FiniteSets, TLC

VARIABLES
    \* ---- Part I: QldCourseScalesApp ----
    subjects,      \* self.subjects: sequence of subject records
    current_idx,   \* self.current_idx, 0-based as in the source
    drag_type,     \* self.drag_type: "none" | "min" | "pz"
    pdf_loaded,    \* self.pdf_loaded
    dialog,        \* the messagebox the last callback showed (modal: gone
                   \* before the next callback runs)
    lsq,           \* the numerical behaviour of numpy's least squares (fixed)
    \* ---- Part II: build_lookup_final.py, a script run top to bottom ----
    pc,            \* the section of the script that runs next
    interp_prev,   \* the previous year's reference curve on its coverage
    interp_2023,   \* the 2023 reference curve on its coverage
    tables,        \* table13, table14 and TOTAL_STUDENTS
    blended,       \* blended: one aggregate per point of atar_grid
    band_students, \* band_students: band -> students
    cumulative,    \* cumulative: band -> students at or above the band
    results,       \* results: the rows of the final table, highest band first
    final_violations, \* final_violations of the last check
    atar_new,      \* what the reverse lookup returned for a row's aggregate
    current_year,  \* CURRENT_YEAR, the year entered at the prompt
    archive,       \* the files of scale_history/, in the order glob lists them
    historical_scales, \* historical_scales: year -> pairs, as last loaded
    printed,       \* what the script has printed so far (the messages of the
                   \* archive and of the two monotonicity checks)
    sim_agg_by_atar, \* sim_agg_by_atar: band -> simulated aggregate
    \* ---- Part III: build_course_scales_2025.py ----
    scale_row,     \* the row process_general_subject returned last (its
                   \* P90, P99 and Max fields)
    \* ---- the pure functions of build_lookup_final.py, called on any input ----
    cleaned,       \* clean_and_average: the data passed and what it returned
    sim_curve      \* simulate_aggregate_curve: the subjects passed and what
                   \* it returned

appvars == <<subjects, current_idx, drag_type, pdf_loaded, dialog, lsq>>

histvars == <<current_year, archive, historical_scales>>

simvars == <<sim_agg_by_atar>>

buildvars == <<pc, interp_prev, interp_2023, tables, blended, band_students,
               cumulative, results, final_violations, atar_new, histvars, printed,
               simvars>>

scalevars == <<scale_row>>

funvars == <<cleaned, sim_curve>>

vars == <<appvars, buildvars, scalevars, funvars>>

\* the script has not been started
BuildIdle ==
    /\ pc = "idle"
    /\ interp_prev = <<>> /\ interp_2023 = <<>> /\ tables = <<>>
    /\ blended = <<>> /\ band_students = <<>> /\ cumulative = <<>>
    /\ results = <<>> /\ final_violations = 0 /\ atar_new = <<>>
    /\ current_year = 0 /\ archive = <<>> /\ historical_scales = <<>>
    /\ printed = <<>>
    /\ sim_agg_by_atar = <<>>

\* process_general_subject has not been called
ScaleIdle == scale_row = <<>>

\* neither function has been called
FunIdle == cleaned = <<>> /\ sim_curve = <<>>

\* the application has not been started
AppIdle ==
    /\ subjects = <<>> /\ current_idx = 0 /\ drag_type = "none"
    /\ pdf_loaded = FALSE /\ lsq = 0
    /\ dialog = [kind |-> "none", succeeded |-> 0, failed |-> <<>>]

-----------------------------------------------------------------------------
(* Units and helpers                                                       *)

\* raw-score units per raw point: hundredths (round(.., 2)) times 4, so that
\* a midpoint of hundredths and the optimizer's 1/40 and 1/80 steps are whole
XU == 4 * 100
\* scaled-score units per scaled point: hundredths times 600, so that
\* 0.95 * y and the optimizer's 1/30 steps of (0.95 * y - 0.1) are whole
YU == 600 * 100
XCent == XU \div 100
YCent == YU \div 100
\* aggregate units per aggregate point: half hundredths, so that
\* round(.., 2) of a blended value rounds
AU == 2 * 100
ACent == AU \div 100

Abs(v) == IF v < 0 THEN 0 - v ELSE v
Min2(a, b) == IF a <= b THEN a ELSE b
Max2(a, b) == IF a >= b THEN a ELSE b

\* floor(n * k / d) for n >= 0, k >= 0, d > 0 without a large product
MulDiv(n, k, d) == (n \div d) * k + ((n % d) * k) \div d

\* Python round(v, 2) on a value of v units with q units per hundredth
\* (v >= 0): to the nearest hundredth, an exact tie to the even hundredth.
Round2(v, q) ==
    LET lo == (v \div q) * q
        r  == v - lo
    IN  IF 2 * r < q THEN lo
        ELSE IF 2 * r > q THEN lo + q
        ELSE IF (lo \div q) % 2 = 0 THEN lo ELSE lo + q

RECURSIVE SumSeq(_)
SumSeq(s) == IF s = <<>> THEN 0 ELSE Head(s) + SumSeq(Tail(s))

RECURSIVE MinSeq(_)
MinSeq(s) == IF Len(s) = 1 THEN s[1] ELSE Min2(Head(s), MinSeq(Tail(s)))

-----------------------------------------------------------------------------
(* Part I.  Subject data model                                             *)

\* The model's number of least-squares behaviours (values of lsq).
LsqModes == 1

\* Polynomial.fit is numpy's, not this repository's.  A fitted polynomial is
\* modelled by what the program reads of it: its values at the points it
\* was fitted to (at, val) and whether its derivative is >= -0.001 at the 51
\* sample points of [min_x, max_x] (mono).  The values differ from the data
\* by a residual that is a fixed function of the data and of lsq: equal
\* points give equal polynomials, and the residual may sit on any anchor.
FitHash(x_pts, y_pts) == SumSeq(x_pts) \div 5 + SumSeq(y_pts) \div 30

FitResidual(mode, x_pts, y_pts, i) ==
    LET h == FitHash(x_pts, y_pts) + mode
        k == 1 + (h % Len(x_pts))
        spread == (x_pts[3] - x_pts[1]) \div XU
        m == 1 + ((h \div 11) % 3) + ((mode + 1) % 2) * spread
    IN  IF k = i THEN (IF h % 2 = 0 THEN m ELSE 0 - m) * YCent ELSE 0

\* behaviour 0: the check passes or fails with the data, and fails when two
\* anchors share an x; behaviour 1: it always fails; others: it always passes
FitMonotonic(mode, x_pts, y_pts) ==
    CASE mode = 0 -> /\ FitHash(x_pts, y_pts) % 3 # 0
                     /\ \A i \in 1..(Len(x_pts) - 1) : x_pts[i] < x_pts[i + 1]
      [] mode = 1 -> FALSE
      [] OTHER    -> TRUE

fit_poly_4(mode, x_pts, y_pts) ==
    [at   |-> x_pts,
     val  |-> [i \in 1..Len(x_pts) |-> y_pts[i] + FitResidual(mode, x_pts, y_pts, i)],
     mono |-> FitMonotonic(mode, x_pts, y_pts)]

\* four coefficients through four points: the cubic interpolates them
fit_poly_3(x_pts, y_pts) == [at |-> x_pts, val |-> y_pts, mono |-> TRUE]

\* X4..X0 = Z3..Z0 = 0 of SubjectData.__init__
ZeroPoly == [at |-> <<>>, val |-> <<>>, mono |-> TRUE]

\* the polynomial at x: known at the points it was fitted to; the zero
\* polynomial is 0 everywhere; elsewhere the model has no value (Unknown)
Unknown == 0 - 1000 * YU
eval_poly(coeffs, x) ==
    IF coeffs = ZeroPoly THEN 0
    ELSE IF \E i \in 1..Len(coeffs.at) : coeffs.at[i] = x
         THEN coeffs.val[CHOOSE i \in 1..Len(coeffs.at) : coeffs.at[i] = x]
         ELSE Unknown

DefaultMinX == 10
MaxRaw == 100

SubjectData(name, code, subject_type) ==
    [name |-> name, code |-> code, subject_type |-> subject_type,
     min_x |-> DefaultMinX * XU,
     pzx |-> 0, p25x |-> 0, p50x |-> 0, p75x |-> 0, p90x |-> 0, p99x |-> 0,
     max_x |-> 0,
     min_y |-> 0, pzy |-> 0, p25y |-> 0, p50y |-> 0, p75y |-> 0, p90y |-> 0,
     p99y |-> 0, max_y |-> 0,
     X |-> ZeroPoly, Z |-> ZeroPoly, max_fit_error |-> 0,
     committed |-> FALSE]

x_all(s) == <<s.min_x, s.pzx, s.p25x, s.p50x, s.p75x, s.p90x, s.p99x, s.max_x>>
y_all(s) == <<s.min_y, s.pzy, s.p25y, s.p50y, s.p75y, s.p90y, s.p99y, s.max_y>>
pdf_xs(s) == <<s.p25x, s.p50x, s.p75x, s.p90x, s.p99x>>
pdf_ys(s) == <<s.p25y, s.p50y, s.p75y, s.p90y, s.p99y>>

HasCurve(s) == s.subject_type = "general" /\ s.p25x # 0

\* max(1, min adjacent gap of the five PDF x values), in raw-score units
min_gap(s) ==
    LET xs == pdf_xs(s)
    IN  Max2(1 * XU, MinSeq([i \in 1..4 |-> xs[i + 1] - xs[i]]))

\* the largest |quartic(x) - y| over the listed anchors
RECURSIVE MaxResidual(_, _, _, _)
MaxResidual(coeffs, xs, ys, n) ==
    IF n = 0 THEN 0
    ELSE Max2(MaxResidual(coeffs, xs, ys, n - 1),
              Abs(eval_poly(coeffs, xs[n]) - ys[n]))

\* a plausible slip: the error taken over the five PDF anchors only
compute_polynomials_pdf_only(mode, s) ==
    IF ~HasCurve(s) THEN s
    ELSE LET X == fit_poly_4(mode, x_all(s), y_all(s))
         IN  [s EXCEPT !.X = X,
                       !.Z = fit_poly_3(SubSeq(x_all(s), 1, 4), SubSeq(y_all(s), 1, 4)),
                       !.max_fit_error = MaxResidual(X, pdf_xs(s), pdf_ys(s), 5)]

compute_polynomials(mode, s) ==
    IF ~HasCurve(s) THEN s
    ELSE LET X == fit_poly_4(mode, x_all(s), y_all(s))
         IN  [s EXCEPT !.X = X,
                       !.Z = fit_poly_3(SubSeq(x_all(s), 1, 4), SubSeq(y_all(s), 1, 4)),
                       !.max_fit_error = MaxResidual(X, x_all(s), y_all(s), 8)]

\* np.polyfit of degree 2 through (a, 0), (b, yb), (c, yc) evaluated at the
\* midpoint of a and b (three points, three coefficients: the parabola
\* through them), for a < b < c:
\*   yb * (2c - a - b) / (4 (c - b))  -  yc * (b - a)^2 / (4 (c - a) (c - b))
QuadAtMid(a, b, c, yb, yc) ==
    LET ar == a \div XU
        br == b \div XU
        cr == c \div XU
    IN  MulDiv(yb, 2 * cr - ar - br, 4 * (cr - br))
        - MulDiv(yc, (br - ar) * (br - ar), 4 * (cr - ar) * (cr - br))

\* 0.95 * y
Frac95(y) == (95 * y) \div 100

\* min_x <- max(0, min(10, p25x - 2 * min_gap)); pzx, pzy as build_general
\* and _reset_current set them (the same lines in both)
DefaultBoundary(s) ==
    LET mx  == Max2(0, Min2(DefaultMinX * XU, s.p25x - 2 * min_gap(s)))
        pzx == (mx + s.p25x) \div 2
        pzy == Max2(0, Min2(Frac95(s.p25y), QuadAtMid(mx, s.p25x, s.p50x, s.p25y, s.p50y)))
    IN  [s EXCEPT !.min_x = mx, !.min_y = 0, !.pzx = pzx, !.pzy = pzy]

\* Max.y: extrapolated from the P90 -> P99 slope, at least P99.y + 0.5, at
\* most 100, rounded to 2 decimals
MaxY(s) ==
    LET ext == IF s.p99x > s.p90x
               THEN s.p99y + ((s.p99y - s.p90y) * ((MaxRaw * XU - s.p99x) \div XU))
                             \div ((s.p99x - s.p90x) \div XU)
               ELSE s.p99y + YU \div 2
    IN  Round2(Min2(100 * YU, Max2(ext, s.p99y + YU \div 2)), YCent)

\* item: the PDF extractor's record (raw values integers, scaled in cents)
build_general(mode, item) ==
    LET s0 == [SubjectData(item.name, item.code, "general") EXCEPT
                 !.p25x = item.X[1] * XU, !.p50x = item.X[2] * XU,
                 !.p75x = item.X[3] * XU, !.p90x = item.X[4] * XU,
                 !.p99x = item.X[5] * XU,
                 !.p25y = item.Y[1] * YCent, !.p50y = item.Y[2] * YCent,
                 !.p75y = item.Y[3] * YCent, !.p90y = item.Y[4] * YCent,
                 !.p99y = item.Y[5] * YCent,
                 !.max_x = MaxRaw * XU]
        s1 == [s0 EXCEPT !.max_y = MaxY(s0)]
    IN  compute_polynomials(mode, DefaultBoundary(s1))

build_nodata(item) == SubjectData(item.name, item.code, "nodata")

build_applied(item) ==
    [SubjectData(item.name, item.code, "applied") EXCEPT
        !.p50y = item.Y[1] * YCent, !.p75y = item.Y[2] * YCent,
        !.p90y = item.Y[3] * YCent]

build_vet(name, scaled_val) ==
    LET v == scaled_val * YCent
        u == scaled_val * XCent
    IN  [SubjectData(name, name, "vet") EXCEPT
           !.min_x = 0,
           !.pzx = u, !.p25x = u, !.p50x = u, !.p75x = u, !.p90x = u,
           !.p99x = u, !.max_x = u,
           !.pzy = v, !.p25y = v, !.p50y = v, !.p75y = v, !.p90y = v,
           !.p99y = v, !.max_y = v]

-----------------------------------------------------------------------------
(* Part I.  Boundary optimizer                                             *)

n_mx == 40
n_pzy == 30

NoBest == [found |-> FALSE, err |-> 0, mx |-> 0, pzx |-> 0, pzy |-> 0]

\* a plausible slip: the upper end of the min_x range taken one gap, not
\* two, below P25.x
CellPoint_one_gap(s, mi, pyi) ==
    LET min_x_hi == s.p25x - min_gap(s)
        pzy_lo   == YU \div 10
        pzy_hi   == Frac95(s.p25y)
        mx   == (min_x_hi * mi) \div n_mx
        pzx  == (mx + s.p25x) \div 2
        pzy  == pzy_lo + ((pzy_hi - pzy_lo) * pyi) \div n_pzy
    IN  [mx |-> mx, pzx |-> pzx, pzy |-> pzy,
         xs |-> <<mx, pzx, s.p25x, s.p50x, s.p75x, s.p90x, s.p99x, s.max_x>>,
         ys |-> <<0, pzy, s.p25y, s.p50y, s.p75y, s.p90y, s.p99y, s.max_y>>]

\* the candidate of grid cell (mi, pyi): mx, pzx (the midpoint), pzy and the
\* eight anchors built from them (lines 489-497)
CellPoint(s, mi, pyi) ==
    LET min_x_hi == s.p25x - 2 * min_gap(s)
        pzy_lo   == YU \div 10
        pzy_hi   == Frac95(s.p25y)
        mx   == (min_x_hi * mi) \div n_mx
        pzx  == (mx + s.p25x) \div 2
        pzy  == pzy_lo + ((pzy_hi - pzy_lo) * pyi) \div n_pzy
    IN  [mx |-> mx, pzx |-> pzx, pzy |-> pzy,
         xs |-> <<mx, pzx, s.p25x, s.p50x, s.p75x, s.p90x, s.p99x, s.max_x>>,
         ys |-> <<0, pzy, s.p25y, s.p50y, s.p75y, s.p90y, s.p99y, s.max_y>>]

\* a plausible slip: a cell that equals the best error replaces the best
ScanCell_last_best(mode, s, best, mi, pyi) ==
    LET c    == CellPoint(s, mi, pyi)
        X    == fit_poly_4(mode, c.xs, c.ys)
        err  == MaxResidual(X, c.xs, c.ys, 8)
    IN  IF ~X.mono THEN best
        ELSE IF ~best.found \/ err <= best.err
             THEN [found |-> TRUE, err |-> err, mx |-> c.mx, pzx |-> c.pzx, pzy |-> c.pzy]
             ELSE best

\* one grid cell of auto_optimize_subject: fit, derivative check, error,
\* and the update of (best_err, best); best_err = inf while best is None
ScanCell(mode, s, best, mi, pyi) ==
    LET c    == CellPoint(s, mi, pyi)
        X    == fit_poly_4(mode, c.xs, c.ys)
        err  == MaxResidual(X, c.xs, c.ys, 8)
    IN  IF ~X.mono THEN best
        ELSE IF ~best.found \/ err < best.err
             THEN [found |-> TRUE, err |-> err, mx |-> c.mx, pzx |-> c.pzx, pzy |-> c.pzy]
             ELSE best

\* TLC evaluates an operator's arguments on demand; the loops below read
\* the running best before they go on, so each cell is settled in turn.
RECURSIVE ScanRow(_, _, _, _, _)
ScanRowFrom(mode, s, b, mi, pyi) ==
    IF b.found \in BOOLEAN THEN ScanRow(mode, s, b, mi, pyi) ELSE b

ScanRow(mode, s, best, mi, pyi) ==
    IF pyi > n_pzy THEN best
    ELSE ScanRowFrom(mode, s, ScanCell(mode, s, best, mi, pyi), mi, pyi + 1)

RECURSIVE ScanGrid(_, _, _, _)
ScanGridFrom(mode, s, b, mi) ==
    IF b.found \in BOOLEAN THEN ScanGrid(mode, s, b, mi) ELSE b

ScanGrid(mode, s, best, mi) ==
    IF mi > n_mx THEN best
    ELSE ScanGridFrom(mode, s, ScanRow(mode, s, best, mi, 0), mi + 1)

\* the two nested loops of auto_optimize_subject (lines 488-520)
grid_search(mode, s) == ScanGrid(mode, s, NoBest, 0)

-----------------------------------------------------------------------------
(* Part I.  The extractor's output (the anchor-supply interface)           *)

\* Records as _parse_general_subjects builds them: five raw values, integers
\* 1..100 in document order, and five scaled values (here in hundredths).
English  == [code |-> "0031", name |-> "English", has_data |-> TRUE,
             X |-> <<61, 72, 83, 91, 99>>, Y |-> <<5267, 7012, 8318, 8948, 9360>>]
\* P25.x - 2g < 0: the optimizer's search space is empty
Latin    == [code |-> "0144", name |-> "Latin", has_data |-> TRUE,
             X |-> <<3, 10, 30, 60, 90>>, Y |-> <<2000, 4000, 6000, 8000, 9000>>]
\* P25.y = 0.10: 0.95 * P25.y is below the optimizer's lowest pzy
Tamil    == [code |-> "0149", name |-> "Tamil", has_data |-> TRUE,
             X |-> <<40, 50, 60, 70, 80>>, Y |-> <<10, 3000, 5000, 7000, 8500>>]
\* P99.x = P90.x: smallest gap 0
Dance    == [code |-> "0018", name |-> "Dance", has_data |-> TRUE,
             X |-> <<50, 60, 70, 80, 80>>, Y |-> <<3000, 4500, 6000, 7500, 7600>>]
\* P25.x - 2g = 10 and P25.y - 0.5 = 8.5: every drag of the model ends on
\* the clamp
Music    == [code |-> "0053", name |-> "Music", has_data |-> TRUE,
             X |-> <<20, 25, 45, 70, 95>>, Y |-> <<900, 3000, 5500, 8000, 9500>>]
Polish   == [code |-> "0146", name |-> "Polish", has_data |-> FALSE,
             X |-> <<>>, Y |-> <<>>]
Tourism  == [code |-> "6418", name |-> "Tourism", has_data |-> TRUE,
             X |-> <<>>, Y |-> <<694, 1812, 3966>>]

GeneralItems == {English, Latin, Tamil, Dance, Music}
ItemOf(code) == CHOOSE it \in GeneralItems : it.code = code

\* VET_SUBJECTS, the subjects carried forward each year (17 in the source,
\* all built alike), and the default scaled value
VET_SUBJECTS == <<"Cert III Business">>
VetScaledDefault == 3800

\* what extract_all returns, for the PDFs of the model
Pdfs == {
    [general |-> <<English>>, applied |-> <<>>],
    [general |-> <<Latin>>, applied |-> <<>>],
    [general |-> <<Tamil>>, applied |-> <<>>],
    [general |-> <<Dance>>, applied |-> <<>>],
    [general |-> <<Polish>>, applied |-> <<Tourism>>],
    [general |-> <<Latin, Music>>, applied |-> <<>>] }

-----------------------------------------------------------------------------
(* Part I.  auto_optimize_subject                                          *)

\* The search reads only the subject's fixed anchors, Max and lsq, so TLC
\* runs it once per subject data and lsq.
search_if_ranges(mode, s) ==
    IF s.p25x - 2 * min_gap(s) < 0 \/ YU \div 10 >= Frac95(s.p25y)
    THEN NoBest
    ELSE grid_search(mode, s)

SearchMemo ==
    [m \in 0..(LsqModes - 1), c \in {it.code : it \in GeneralItems} |->
        search_if_ranges(m, build_general(m, ItemOf(c)))]

SearchOf(mode, s) == SearchMemo[mode, s.code]

\* a plausible slip: the candidate written into the subject while scanning,
\* so that a failed search leaves the last scanned cell behind
auto_optimize_subject_dirty(mode, s) ==
    IF ~HasCurve(s) THEN [ok |-> FALSE, s |-> s]
    ELSE IF s.p25x - 2 * min_gap(s) < 0 THEN [ok |-> FALSE, s |-> s]
    ELSE IF YU \div 10 >= Frac95(s.p25y)
         THEN [ok |-> FALSE, s |-> [s EXCEPT !.pzy = YU \div 10]]
    ELSE LET best == SearchOf(mode, s)
         IN  IF ~best.found
             THEN [ok |-> FALSE,
                   s  |-> [s EXCEPT !.min_x = s.p25x - 2 * min_gap(s),
                                    !.pzx = (s.p25x - 2 * min_gap(s) + s.p25x) \div 2]]
             ELSE [ok |-> TRUE,
                   s  |-> compute_polynomials(mode,
                             [s EXCEPT !.min_x = best.mx, !.pzx = best.pzx,
                                       !.pzy = best.pzy, !.min_y = 0])]

\* a plausible slip: the best cell written into the subject without the
\* refit, so that the coefficients of the earlier anchors stay
take_best_no_refit(mode, s, best) ==
    IF ~best.found THEN [ok |-> FALSE, s |-> s]
    ELSE [ok |-> TRUE,
          s  |-> [s EXCEPT !.min_x = best.mx, !.pzx = best.pzx,
                           !.pzy = best.pzy, !.min_y = 0]]

\* the end of auto_optimize_subject (lines 522-528): False when no cell
\* passed, else the best cell written into the subject
take_best(mode, s, best) ==
    IF ~best.found THEN [ok |-> FALSE, s |-> s]
    ELSE [ok |-> TRUE,
          s  |-> compute_polynomials(mode,
                    [s EXCEPT !.min_x = best.mx, !.pzx = best.pzx,
                              !.pzy = best.pzy, !.min_y = 0])]

\* the result: [ok: the returned value, s: the subject after the call]
auto_optimize_subject(mode, s) ==
    IF ~HasCurve(s) THEN [ok |-> FALSE, s |-> s]
    ELSE IF s.p25x - 2 * min_gap(s) < 0 THEN [ok |-> FALSE, s |-> s]
    ELSE IF YU \div 10 >= Frac95(s.p25y) THEN [ok |-> FALSE, s |-> s]
    ELSE take_best(mode, s, SearchOf(mode, s))

-----------------------------------------------------------------------------
(* Part I.  QldCourseScalesApp                                             *)

NoDialog == [kind |-> "none", succeeded |-> 0, failed |-> <<>>]
Dialog(kind) == [kind |-> kind, succeeded |-> 0, failed |-> <<>>]

\* event.xdata / event.ydata of a mouse move, in raw / scaled units
XData == {10 * XU + XCent, 100 * XU}
YData == {9 * YU + 240, 60 * YU}

\* subjects[current_idx], the source's 0-based index
Cur == subjects[current_idx + 1]

RECURSIVE BuildGeneralList(_, _)
BuildGeneralList(mode, items) ==
    IF items = <<>> THEN <<>>
    ELSE <<IF Head(items).has_data THEN build_general(mode, Head(items))
           ELSE build_nodata(Head(items))>>
         \o BuildGeneralList(mode, Tail(items))

BuildAll(mode, data) ==
    BuildGeneralList(mode, data.general)
    \o [i \in 1..Len(data.applied) |-> build_applied(data.applied[i])]
    \o [i \in 1..Len(VET_SUBJECTS) |-> build_vet(VET_SUBJECTS[i], VetScaledDefault)]

\* the builds of the model's PDFs, once per lsq
Built == [m \in 0..(LsqModes - 1), d \in Pdfs |-> BuildAll(m, d)]

AppInit ==
    /\ subjects = <<>>
    /\ current_idx = 0
    /\ drag_type = "none"
    /\ pdf_loaded = FALSE
    /\ dialog = NoDialog
    /\ lsq \in 0..(LsqModes - 1)
    /\ BuildIdle
    /\ ScaleIdle
    /\ FunIdle

\* _upload_pdf, the extraction and the build succeed
UploadPdf ==
    \E data \in Pdfs :
        /\ subjects' = Built[lsq, data]
        /\ pdf_loaded' = TRUE
        /\ current_idx' = 0
        /\ dialog' = Dialog("pdf_loaded")
        /\ UNCHANGED <<drag_type, lsq, buildvars, scalevars, funvars>>

\* _upload_pdf, PDFExtractor raises: nothing is assigned before the except
UploadPdfError ==
    /\ dialog' = Dialog("pdf_error")
    /\ UNCHANGED <<subjects, current_idx, drag_type, pdf_loaded, lsq, buildvars, scalevars, funvars>>

\* _on_list_select -> _select_subject(idx)
ListSelect ==
    \E idx \in 0..(Len(subjects) - 1) :
        /\ current_idx' = idx
        /\ dialog' = NoDialog
        /\ UNCHANGED <<subjects, drag_type, pdf_loaded, lsq, buildvars, scalevars, funvars>>

\* _on_mouse_press: near_min / near_pz are the two proximity tests
MousePress ==
    \E near_min \in BOOLEAN, near_pz \in BOOLEAN :
        /\ subjects # <<>>
        /\ HasCurve(Cur)
        /\ drag_type' = IF near_min THEN "min"
                        ELSE IF near_pz THEN "pz" ELSE drag_type
        /\ dialog' = NoDialog
        /\ UNCHANGED <<subjects, current_idx, pdf_loaded, lsq, buildvars, scalevars, funvars>>

\* a plausible slip: a PZ drag above P25.y - 0.5 pushing P25.y up instead of
\* being clamped
mouse_move_pushing_p25(mode, s, dtype, xdata, ydata) ==
    LET moved ==
          IF dtype = "min"
          THEN LET new_x == Max2(0, Min2(s.p25x - 2 * min_gap(s), xdata))
                   mx    == Round2(new_x, XCent)
               IN  [s EXCEPT !.min_x = mx, !.min_y = 0,
                             !.pzx = Round2((mx + s.p25x) \div 2, XCent)]
          ELSE LET new_y == Max2(YU \div 10, ydata)
               IN  [s EXCEPT !.pzy = Round2(new_y, YCent),
                             !.p25y = Max2(s.p25y, Round2(new_y, YCent) + YU \div 2)]
    IN  compute_polynomials(mode, moved)

\* the body of _on_mouse_move for subject s
mouse_move(mode, s, dtype, xdata, ydata) ==
    LET moved ==
          IF dtype = "min"
          THEN LET new_x == Max2(0, Min2(s.p25x - 2 * min_gap(s), xdata))
                   mx    == Round2(new_x, XCent)
               IN  [s EXCEPT !.min_x = mx, !.min_y = 0,
                             !.pzx = Round2((mx + s.p25x) \div 2, XCent)]
          ELSE LET new_y == Max2(YU \div 10, Min2(s.p25y - YU \div 2, ydata))
               IN  [s EXCEPT !.pzy = Round2(new_y, YCent)]
    IN  compute_polynomials(mode, moved)

MouseMove ==
    \E xdata \in XData, ydata \in YData :
        /\ drag_type # "none"
        /\ subjects' = [subjects EXCEPT
                          ![current_idx + 1] = mouse_move(lsq, Cur, drag_type, xdata, ydata)]
        /\ dialog' = NoDialog
        /\ UNCHANGED <<current_idx, drag_type, pdf_loaded, lsq, buildvars, scalevars, funvars>>

MouseRelease ==
    /\ drag_type # "none"
    /\ drag_type' = "none"
    /\ dialog' = NoDialog
    /\ UNCHANGED <<subjects, current_idx, pdf_loaded, lsq, buildvars, scalevars, funvars>>

\* the end of _auto_fit_current: r is what auto_optimize_subject did
fit_current_shown(r) ==
    /\ subjects' = [subjects EXCEPT ![current_idx + 1] = r.s]
    /\ dialog' = IF r.ok THEN Dialog("autofit_succeeded")
                 ELSE Dialog("autofit_no_solution")

\* _auto_fit_current
AutoFitCurrent ==
    /\ subjects # <<>>
    /\ IF ~HasCurve(Cur)
       THEN /\ dialog' = Dialog("autofit_not_applicable")
            /\ UNCHANGED subjects
       ELSE fit_current_shown(auto_optimize_subject(lsq, Cur))
    /\ UNCHANGED <<current_idx, drag_type, pdf_loaded, lsq, buildvars, scalevars, funvars>>

\* _auto_fit_all: the list of (index, subject) pairs it calls eligible, as
\* 1-based indices
eligible(subs) ==
    SelectSeq([i \in 1..Len(subs) |-> i],
              LAMBDA i : subs[i].subject_type = "general" /\ subs[i].p25x > 0)

\* the state after the first n passes of the for loop of _auto_fit_all over
\* todo (the eligible indices), o[k] being what auto_optimize_subject returned
\* in pass k; each pass touches the one SubjectData object it was handed.
\* calls lists the indices handed to the optimizer, in call order.
fit_passes(subs, todo, o, n) ==
    LET failed_k == SelectSeq([k \in 1..n |-> k], LAMBDA k : ~o[k].ok)
    IN  [subjects  |-> [i \in 1..Len(subs) |->
                          IF \E k \in 1..n : todo[k] = i
                          THEN o[CHOOSE k \in 1..n : todo[k] = i].s
                          ELSE subs[i]],
         succeeded |-> Cardinality({k \in 1..n : o[k].ok}),
         failed    |-> [j \in 1..Len(failed_k) |-> subs[todo[failed_k[j]]].name],
         calls     |-> SubSeq(todo, 1, n)]

\* what auto_optimize_subject returns for each eligible subject
fit_each(mode, subs, todo) ==
    [k \in 1..Len(todo) |-> auto_optimize_subject(mode, subs[todo[k]])]

\* the number of passes made by a loop that leaves at the first failure
passes_until_failure(o) ==
    IF \A k \in 1..Len(o) : o[k].ok THEN Len(o)
    ELSE CHOOSE k \in 1..Len(o) : ~o[k].ok /\ \A j \in 1..(k - 1) : o[j].ok

\* a plausible slip: the loop of _auto_fit_all leaving at the first subject
\* the optimizer fails on
auto_fit_all_until_failure(mode, subs) ==
    fit_passes(subs, eligible(subs), fit_each(mode, subs, eligible(subs)),
               passes_until_failure(fit_each(mode, subs, eligible(subs))))

\* the for loop of _auto_fit_all, all passes made
auto_fit_all(mode, subs) ==
    fit_passes(subs, eligible(subs), fit_each(mode, subs, eligible(subs)),
               Len(eligible(subs)))

\* the end of _auto_fit_all: the summary dialog
fit_all_complete(r) ==
    /\ subjects' = r.subjects
    /\ dialog' = [kind |-> "autofit_all_complete",
                  succeeded |-> r.succeeded, failed |-> r.failed]

\* _auto_fit_all
AutoFitAll ==
    /\ subjects # <<>>
    /\ IF eligible(subjects) = <<>>
       THEN /\ dialog' = Dialog("autofit_all_no_eligible")
            /\ UNCHANGED subjects
       ELSE fit_all_complete(auto_fit_all(lsq, subjects))
    /\ UNCHANGED <<current_idx, drag_type, pdf_loaded, lsq, buildvars, scalevars, funvars>>

\* _commit_current
CommitCurrent ==
    /\ subjects # <<>>
    /\ subjects' = [subjects EXCEPT ![current_idx + 1].committed = TRUE]
    /\ dialog' = NoDialog
    /\ UNCHANGED <<current_idx, drag_type, pdf_loaded, lsq, buildvars, scalevars, funvars>>

\* _commit_all
CommitAll ==
    /\ subjects' = [i \in 1..Len(subjects) |-> [subjects[i] EXCEPT !.committed = TRUE]]
    /\ dialog' = IF subjects = <<>> \/ current_idx < Len(subjects)
                 THEN Dialog("all_committed")
                 ELSE NoDialog  \* _select_subject raised IndexError
    /\ UNCHANGED <<current_idx, drag_type, pdf_loaded, lsq, buildvars, scalevars, funvars>>

\* the body of _reset_current for subject s
reset_subject(mode, s) ==
    IF HasCurve(s)
    THEN [compute_polynomials(mode, DefaultBoundary(s)) EXCEPT !.committed = FALSE]
    ELSE s

ResetCurrent ==
    /\ subjects # <<>>
    /\ subjects' = [subjects EXCEPT ![current_idx + 1] = reset_subject(lsq, Cur)]
    /\ dialog' = NoDialog
    /\ UNCHANGED <<current_idx, drag_type, pdf_loaded, lsq, buildvars, scalevars, funvars>>

AppNext ==
    \/ UploadPdf
    \/ UploadPdfError
    \/ ListSelect
    \/ MousePress
    \/ MouseMove
    \/ MouseRelease
    \/ AutoFitCurrent
    \/ AutoFitAll
    \/ CommitCurrent
    \/ CommitAll
    \/ ResetCurrent

SpecApp == AppInit /\ [][AppNext]_vars

-----------------------------------------------------------------------------
(* Part I.  Properties                                                     *)

GeneralIdx == {i \in 1..Len(subjects) : subjects[i].subject_type = "general"}
CurNext == subjects'[current_idx' + 1]

\* the smallest adjacent gap g of the five fixed anchor x values (the code
\* searches with max(1, g))
SmallestGap(s) == LET xs == pdf_xs(s) IN MinSeq([i \in 1..4 |-> xs[i + 1] - xs[i]])

\* the grid of auto_optimize_subject is searched (both ranges are non-empty)
GridSearched(s) ==
    /\ HasCurve(s)
    /\ s.p25x - 2 * min_gap(s) >= 0
    /\ YU \div 10 < Frac95(s.p25y)

\* some grid cell's quartic passes the sampled-derivative check, per lsq and
\* subject data (stated on the cells, not on the scan)
SomeCellPasses ==
    [m \in 0..(LsqModes - 1), c \in {it.code : it \in GeneralItems} |->
        LET s == build_general(m, ItemOf(c))
        IN  \E mi \in 0..n_mx, pyi \in 0..n_pzy :
                LET p == CellPoint(s, mi, pyi) IN fit_poly_4(m, p.xs, p.ys).mono]

\* a subject that is not as build_general / Reset leave it
Edited(s) == s # reset_subject(lsq, [s EXCEPT !.committed = FALSE])

\* C3: an Auto-Fit whose grid search finds no cell passing the derivative
\* check changes no field of the subject (nor of any other subject) and
\* shows the "No monotonic solution" warning, never the success message;
\* the success message is shown only when the optimizer returned True.
C3_FailedAutoFitKeepsSubject ==
    [][AutoFitCurrent /\ HasCurve(Cur) =>
          /\ (GridSearched(Cur) /\ ~SomeCellPasses[lsq, Cur.code]
                => subjects' = subjects /\ dialog'.kind = "autofit_no_solution")
          /\ (dialog'.kind = "autofit_succeeded" <=> auto_optimize_subject(lsq, Cur).ok)
          /\ dialog'.kind \in {"autofit_succeeded", "autofit_no_solution"}]_vars

\* an edited subject on which the search was run and failed
C3_Witness ==
    /\ dialog.kind = "autofit_no_solution"
    /\ GridSearched(Cur) /\ ~SomeCellPasses[lsq, Cur.code]
    /\ Edited(Cur)

\* C4: a successful Auto-Fit leaves 0 <= Min.x <= P25.x - 2g; when
\* P25.x - 2g < 0 the optimizer returns False (the warning is shown) and the
\* subjects are unchanged.
C4_MinXRangeOrFailure ==
    [][AutoFitCurrent /\ HasCurve(Cur) =>
          /\ (dialog'.kind = "autofit_succeeded"
                => /\ 0 <= CurNext.min_x
                   /\ CurNext.min_x <= Cur.p25x - 2 * SmallestGap(Cur))
          /\ (Cur.p25x - 2 * SmallestGap(Cur) < 0
                => subjects' = subjects /\ dialog'.kind = "autofit_no_solution")]_vars

\* the search space collapsed on an edited subject, and the failure was shown
C4_Witness ==
    /\ dialog.kind = "autofit_no_solution"
    /\ HasCurve(Cur)
    /\ Cur.p25x - 2 * SmallestGap(Cur) < 0
    /\ Edited(Cur)

\* C8: for every general subject and each of its 8 anchors, the fitted
\* quartic at the anchor's x differs from the anchor's y by at most
\* max_fit_error.
C8_ResidualWithinMaxFitError ==
    \A i \in GeneralIdx : \A k \in 1..8 :
        Abs(eval_poly(subjects[i].X, x_all(subjects[i])[k]) - y_all(subjects[i])[k])
            <= subjects[i].max_fit_error

\* a dragged subject whose largest residual is positive and sits on Min,
\* the lower boundary or Max, not on a PDF anchor
C8_Witness ==
    \E i \in GeneralIdx :
        LET s == subjects[i]
        IN  /\ Edited(s)
            /\ s.max_fit_error > 0
            /\ \E k \in {1, 2, 8} :
                  Abs(eval_poly(s.X, x_all(s)[k]) - y_all(s)[k]) = s.max_fit_error
            /\ \A k \in 3..7 :
                  Abs(eval_poly(s.X, x_all(s)[k]) - y_all(s)[k]) < s.max_fit_error

\* C9 (as claimed): LowerBoundary.x is exactly the midpoint of Min.x and
\* P25.x for every general subject, after every operation.
C9_PzxIsExactMidpoint ==
    \A i \in GeneralIdx :
        2 * subjects[i].pzx = subjects[i].min_x + subjects[i].p25x

\* C10 (as claimed): LowerBoundary.y lies strictly between 0 and
\* 0.95 * P25.y for every general subject, after every operation.
C10_PzyInsideOpenInterval ==
    \A i \in GeneralIdx :
        /\ 0 < subjects[i].pzy
        /\ 100 * subjects[i].pzy < 95 * subjects[i].p25y

-----------------------------------------------------------------------------
(* Part II.  build_lookup_final.py: the reference curves and the grid      *)

\* The source's grid is 30.05, 30.10, .., 99.95.  The model keeps the whole
\* rank points GridLo, GridLo + 1, .., GridLen of them: a band is one rank
\* point wide, and the script's thresholds in rank points (48, 52, the fade
\* zones of 8 and 2) keep their values.
GridLo == 44
GridLen == 15
atar_grid == [i \in 1..GridLen |-> GridLo + i - 1]
GridSet == {atar_grid[i] : i \in 1..GridLen}

\* The top rank a reference year covers (99.95 in the source's data).
TopRank == 100

\* PchipInterpolator is scipy's.  A reference curve is modelled by what the
\* script reads of it: the coverage [lo, hi] of the year's cleaned data, the
\* interpolant's value at every rank of the coverage (increasing, as the
\* cleaned data are) and its derivative at lo.
Line(lo, v0, s) ==
    [lo |-> lo, hi |-> TopRank, slope |-> s,
     val |-> [a \in lo..TopRank |-> v0 + s * (a - lo)]]

\* previous-year curves: an ordinary one, a nearly flat one (half a cent per
\* rank), one that passes 500 inside the grid, one that starts at rank 50,
\* one that starts on the lowest grid point
PrevCurves == {
    Line(48, 150 * AU, 6 * AU),
    Line(48, 300 * AU, 1),
    Line(48, 497 * AU, AU \div 2),
    Line(50, 160 * AU, 5 * AU),
    Line(44, 140 * AU, 6 * AU) }

\* 2023 curves: an ordinary one, a low one, a nearly flat one, one that
\* reaches 500 at the top of the grid, one that starts inside the grid
Y23Curves == {
    Line(30, 40 * AU, 5 * AU),
    Line(30, 2 * AU, AU),
    Line(30, 300 * AU - 7, 1),
    Line(30, 486 * AU, AU \div 2),
    Line(45, 120 * AU, 4 * AU) }

-----------------------------------------------------------------------------
(* Part II.  The blend of the reference years                              *)

\* W_PREV = 0.60 and W_2023 = 0.40, in tenths
W_PREV == 6
W_2023 == 4
FADE_ZONE_PREV == 8
FADE_ZONE_2023 == 2

Cube(n) == n * n * n
in_year(c, a) == c.lo <= a /\ a <= c.hi

\* The effective weights of the blend loop, in units of
\* 1 / (10 * FADE_ZONE_PREV^3 * FADE_ZONE_2023) so that t^3 and fade are whole.
BaseWeightPrev == W_PREV * Cube(FADE_ZONE_PREV) * FADE_ZONE_2023
BaseWeight2023 == W_2023 * Cube(FADE_ZONE_PREV) * FADE_ZONE_2023

\* a plausible slip: the previous year's weight without its fade
w_p_unfaded(c, a) == IF in_year(c, a) THEN BaseWeightPrev ELSE 0

\* w_p: W_PREV inside the coverage, times t^3 in the fade zone
w_p(c, a) ==
    IF ~in_year(c, a) THEN 0
    ELSE IF a - c.lo < FADE_ZONE_PREV
         THEN W_PREV * Cube(a - c.lo) * FADE_ZONE_2023
         ELSE BaseWeightPrev

\* w_2: W_2023 inside the coverage, times fade in the fade zone
w_2(c, a) ==
    IF ~in_year(c, a) THEN 0
    ELSE IF a - c.lo < FADE_ZONE_2023
         THEN W_2023 * Cube(FADE_ZONE_PREV) * (a - c.lo)
         ELSE BaseWeight2023

\* total_w of the iteration at a
total_w(prev, y23, a) == w_p(prev, a) + w_2(y23, a)

\* one iteration of the blend loop
blend_at(prev, y23, a) ==
    LET wp == w_p(prev, a)
        w2 == w_2(y23, a)
        v_p == IF in_year(prev, a) THEN prev.val[a] ELSE 0
        v_2 == IF in_year(y23, a) THEN y23.val[a] ELSE 0
    IN  IF total_w(prev, y23, a) > 0
        THEN (wp * v_p + w2 * v_2) \div total_w(prev, y23, a)
        ELSE y23.val[y23.lo] + y23.slope * (a - y23.lo)

blend(prev, y23) == [i \in 1..GridLen |-> blend_at(prev, y23, atar_grid[i])]

\* np.searchsorted(grid, v): the 0-based index of the first point >= v
searchsorted(grid, v) == Cardinality({i \in 1..Len(grid) : grid[i] < v})

SMOOTH_BELOW == 48
SmoothUpper == 52
\* decel_factor = 1.0 - 0.0003 * steps_below, floored at 0.85, in 1/DecelUnit
DecelUnit == 100 * 100
DecelPerStep == 3
DecelFloor == 8500

\* a plausible slip: the gradient is not decelerated
RECURSIVE extend_loop_constant_gradient(_, _, _, _, _)
extend_loop_constant_gradient(b, j, smooth_idx, diff, span) ==
    IF j < 0 THEN b
    ELSE LET nb == [b EXCEPT ![j + 1] = b[j + 2] - diff \div span]
         IN  IF nb[j + 1] \in Int
             THEN extend_loop_constant_gradient(nb, j - 1, smooth_idx, diff, span)
             ELSE nb

\* the extension loop from 0-based index j down to 0; diff over span is
\* avg_grad_per_step
RECURSIVE extend_loop(_, _, _, _, _)
extend_loop(b, j, smooth_idx, diff, span) ==
    IF j < 0 THEN b
    ELSE LET steps_below  == smooth_idx - j
             decel_factor == Max2(DecelUnit - DecelPerStep * steps_below, DecelFloor)
             grad == (diff * decel_factor) \div (span * DecelUnit)
             nb   == [b EXCEPT ![j + 1] = b[j + 2] - grad]
         IN  IF nb[j + 1] \in Int THEN extend_loop(nb, j - 1, smooth_idx, diff, span) ELSE nb

\* the smooth extension below SMOOTH_BELOW (the grid of the model, as the
\* source's, has points on both sides of 48 and of 52)
smooth_extension(b) ==
    LET smooth_idx == searchsorted(atar_grid, SMOOTH_BELOW)
        upper_idx  == searchsorted(atar_grid, SmoothUpper)
    IN  extend_loop(b, smooth_idx - 1, smooth_idx,
                    b[upper_idx + 1] - b[smooth_idx + 1], upper_idx - smooth_idx)

\* the forward pass: a value not above its predecessor becomes predecessor + 0.01
RECURSIVE monotone_loop(_, _)
monotone_loop(b, i) ==
    IF i > Len(b) THEN b
    ELSE LET nb == IF b[i] <= b[i - 1] THEN [b EXCEPT ![i] = b[i - 1] + ACent] ELSE b
         IN  IF nb[i] \in Int THEN monotone_loop(nb, i + 1) ELSE nb

enforce_monotone(b) == monotone_loop(b, 2)

AggCap == 500
clamp(b) == [i \in 1..Len(b) |-> Max2(Min2(b[i], AggCap * AU), 0)]

\* the blender, start to end
blender(prev, y23) == clamp(enforce_monotone(smooth_extension(blend(prev, y23))))

\* agg_lookup.get(atar, 0)
agg_lookup_get(b, atar) ==
    IF atar \in GridSet THEN b[atar - GridLo + 1] ELSE 0

-----------------------------------------------------------------------------
(* Part II.  The band distribution                                         *)

Row13(atar, count) == [atar |-> atar, count |-> count]
Row14(low, high, total) == [low |-> low, high |-> high, total |-> total]

\* table13 (individually listed bands), table14 (range totals) and
\* TOTAL_STUDENTS, for the distributions of the model:
\*   the listed bands fill their range exactly (as in the source's data);
\*   a range is listed in part; the listed bands exceed their range total;
\*   a listed band above the grid, and bands with no range;
\*   a range listed in full with less than its total
Distributions == {
    [table13 |-> <<Row13(58, 3), Row13(57, 4)>>,
     table14 |-> <<Row14(57, 58, 7), Row14(52, 56, 12), Row14(44, 51, 20)>>,
     TOTAL_STUDENTS |-> 42],
    [table13 |-> <<Row13(58, 3)>>,
     table14 |-> <<Row14(55, 58, 10), Row14(44, 54, 30)>>,
     TOTAL_STUDENTS |-> 43],
    [table13 |-> <<Row13(58, 6), Row13(57, 5)>>,
     table14 |-> <<Row14(57, 58, 10), Row14(44, 56, 26)>>,
     TOTAL_STUDENTS |-> 40],
    [table13 |-> <<Row13(59, 2), Row13(58, 3)>>,
     table14 |-> <<Row14(58, 59, 5), Row14(50, 57, 16)>>,
     TOTAL_STUDENTS |-> 25],
    [table13 |-> <<Row13(58, 3), Row13(57, 3)>>,
     table14 |-> <<Row14(57, 58, 10), Row14(44, 56, 13)>>,
     TOTAL_STUDENTS |-> 25] }

EmptyDict == [b \in {} |-> 0]

RECURSIVE SumOver(_, _)
SumOver(f, S) ==
    IF S = {} THEN 0
    ELSE LET b == CHOOSE x \in S : TRUE IN f[b] + SumOver(f, S \ {b})

\* band_students[round(atar, 2)] = count, for every row of table13
RECURSIVE listed_bands(_, _)
listed_bands(bs, t13) ==
    IF t13 = <<>> THEN bs
    ELSE listed_bands([b \in DOMAIN bs \cup {Head(t13).atar} |->
                          IF b = Head(t13).atar THEN Head(t13).count ELSE bs[b]],
                      Tail(t13))

\* a plausible slip: the remainder of the division is dropped
band_share_base_only(remaining, n, i) == remaining \div n

\* a plausible slip: the odd ones go to the lowest bands of the range
band_share_extra_low(remaining, n, i) ==
    LET base  == remaining \div n
        extra == remaining - base * n
    IN  base + (IF i >= n - extra THEN 1 ELSE 0)

\* what the i-th (0-based, from the top) unassigned band of a range gets
band_share(remaining, n, i) ==
    LET base  == remaining \div n
        extra == remaining - base * n
    IN  base + (IF i < extra THEN 1 ELSE 0)

\* one iteration of the table14 loop
range_step(bs, r) ==
    LET bands_in_range   == r.low..r.high
        already_assigned == SumOver(bs, bands_in_range \cap DOMAIN bs)
        unassigned       == bands_in_range \ DOMAIN bs
        remaining        == r.total - already_assigned
        n                == Cardinality(unassigned)
    IN  IF remaining <= 0 \/ n = 0 THEN bs
        ELSE [b \in DOMAIN bs \cup unassigned |->
                IF b \in unassigned
                THEN band_share(remaining, n, Cardinality({u \in unassigned : u > b}))
                ELSE bs[b]]

RECURSIVE range_loop(_, _)
range_loop(bs, t14) ==
    IF t14 = <<>> THEN bs ELSE range_loop(range_step(bs, Head(t14)), Tail(t14))

build_band_students(t) == range_loop(listed_bands(EmptyDict, t.table13), t.table14)

\* cumulative[band]: the running sum from the highest band down to band
build_cumulative(bs) ==
    [b \in DOMAIN bs |-> SumOver(bs, {c \in DOMAIN bs : c >= b})]

\* sorted(band_students.keys(), reverse=True)
RECURSIVE sorted_bands(_)
sorted_bands(S) ==
    IF S = {} THEN <<>>
    ELSE LET m == CHOOSE x \in S : \A y \in S : y <= x
         IN  <<m>> \o sorted_bands(S \ {m})

-----------------------------------------------------------------------------
(* Part II.  The simulation (triangulation) and the optional 3-way blend   *)

\* SIM_BLEND_WEIGHT, in percent
SIM_BLEND_WEIGHT == 0

\* the simulated curve (raw percentile -> aggregate) as the interpolator
\* sees it: the aggregate at percentile 0 and the rise per percentile point
SimCurve(at0, per_pct) == [at0 |-> at0, per_pct |-> per_pct]
SimCurves == {SimCurve(0, 5 * AU), SimCurve(40 * AU, 3 * AU)}

\* pct_clamped of a band, in hundredths of a percentile point
band_pct(band, bs, cum, total) ==
    Max2(0, Min2(10000,
        (10000 * (2 * (total - cum[band]) + bs[band])) \div (2 * total)))

\* sim_interp_func(pct_clamped)
sim_interp_func(c, pct) == c.at0 + (c.per_pct * pct) \div 100

\* sim_agg_by_atar: the simulated aggregate of every band
build_sim_agg_by_atar(c, bs, cum, total) ==
    [band \in DOMAIN bs |-> sim_interp_func(c, band_pct(band, bs, cum, total))]

\* the mix of one grid point
sim_mix(b, sim, i, w) ==
    IF (GridLo + i - 1) \in DOMAIN sim
    THEN ((100 - w) * b[i] + w * sim[GridLo + i - 1]) \div 100
    ELSE b[i]

\* the body of the 3-way blend: mix, re-enforce monotonicity, clamp
sim_blend(b, sim, w) ==
    clamp(enforce_monotone([i \in 1..Len(b) |-> sim_mix(b, sim, i, w)]))

\* a plausible slip: the blend is applied with an even weight whatever
\* SIM_BLEND_WEIGHT is
three_way_blend_always(b, sim) == sim_blend(b, sim, 50)

\* if SIM_BLEND_WEIGHT > 0: ... ; blended (and agg_lookup) after the section
three_way_blend(b, sim) ==
    IF SIM_BLEND_WEIGHT > 0 THEN sim_blend(b, sim, SIM_BLEND_WEIGHT) ELSE b

-----------------------------------------------------------------------------
(* Part II.  The final table and the reverse lookup                        *)

\* round(n / d * 100, 2) in hundredths of a percent
cum_pct(n, d) == (2 * n * 10000 + d) \div (2 * d)

\* the rows of results before the repair
build_results(b, bs, cum, t) ==
    LET bands == sorted_bands(DOMAIN bs)
    IN  [k \in 1..Len(bands) |->
            [atar       |-> bands[k],
             agg        |-> Round2(agg_lookup_get(b, bands[k]), ACent),
             students   |-> bs[bands[k]],
             cumulative |-> cum[bands[k]],
             cum_pct    |-> cum_pct(cum[bands[k]], t.TOTAL_STUDENTS)]]

\* a plausible slip: only a row above its predecessor is repaired, a tie is not
RECURSIVE fix_loop_gt(_, _)
fix_loop_gt(res, i) ==
    IF i > Len(res) THEN res
    ELSE LET nr == IF res[i].agg > res[i - 1].agg
                   THEN [res EXCEPT ![i].agg = res[i - 1].agg - ACent] ELSE res
         IN  IF nr[i].agg \in Int THEN fix_loop_gt(nr, i + 1) ELSE nr

fix_ties_gt(res) == fix_loop_gt(res, 2)

\* the repair pass: a row not below its predecessor becomes predecessor - 0.01
RECURSIVE fix_loop(_, _)
fix_loop(res, i) ==
    IF i > Len(res) THEN res
    ELSE LET nr == IF res[i].agg >= res[i - 1].agg
                   THEN [res EXCEPT ![i].agg = res[i - 1].agg - ACent] ELSE res
         IN  IF nr[i].agg \in Int THEN fix_loop(nr, i + 1) ELSE nr

fix_ties(res) == fix_loop(res, 2)

\* the final check's count
count_violations(res) ==
    Cardinality({i \in 2..Len(res) : res[i].agg >= res[i - 1].agg})

\* a plausible slip: the rows are used in table order, not sorted by aggregate
results_unsorted(res) == res

\* sorted(results, key=lambda x: x[1]): ascending by aggregate, stable
RECURSIVE insert_by_agg(_, _)
insert_by_agg(rows, row) ==
    IF rows = <<>> THEN <<row>>
    ELSE IF Head(rows).agg <= row.agg
         THEN <<Head(rows)>> \o insert_by_agg(Tail(rows), row)
         ELSE <<row>> \o rows

RECURSIVE sort_loop(_, _, _)
sort_loop(res, i, acc) ==
    IF i > Len(res) THEN acc ELSE sort_loop(res, i + 1, insert_by_agg(acc, res[i]))

results_by_agg(res) == sort_loop(res, 1, <<>>)

\* agg_to_atar_2025 on the rows rev = results_by_agg: the rank as the exact
\* fraction num / den (den = 0: the division by zero of equal aggregates)
agg_to_atar_2025(rev, aggregate) ==
    IF aggregate <= rev[1].agg THEN [num |-> rev[1].atar, den |-> 1]
    ELSE IF aggregate >= rev[Len(rev)].agg THEN [num |-> rev[Len(rev)].atar, den |-> 1]
    ELSE LET idx == searchsorted([i \in 1..Len(rev) |-> rev[i].agg], aggregate)
             lo  == rev[idx]
             hi  == rev[idx + 1]
             den == hi.agg - lo.agg
         IN  [num |-> lo.atar * den + (aggregate - lo.agg) * (hi.atar - lo.atar),
              den |-> den]

-----------------------------------------------------------------------------
(* Part II.  The scale history archive                                     *)

\* A file of scale_history/ is [stem, lines]: stem is what is left of the
\* file name once "scale_" and ".csv" are taken out, one character per
\* element; lines are the rows csv.reader yields, the header line first.  A
\* cell is a text that float() takes (num, v its value) or rejects.
Num(v) == [num |-> TRUE, v |-> v]
Junk == [num |-> FALSE, v |-> 0]
HeaderLine == <<Junk, Junk>>
File(stem, lines) == [stem |-> stem, lines |-> lines]

DigitChars == <<"0", "1", "2", "3", "4", "5", "6", "7", "8", "9">>
IsDigit(c) == \E d \in 1..10 : DigitChars[d] = c
DigitValue(c) == (CHOOSE d \in 1..10 : DigitChars[d] = c) - 1

RECURSIVE lstrip(_)
lstrip(s) == IF s # <<>> /\ Head(s) = " " THEN lstrip(Tail(s)) ELSE s

RECURSIVE rstrip(_)
rstrip(s) ==
    IF s # <<>> /\ s[Len(s)] = " " THEN rstrip(SubSeq(s, 1, Len(s) - 1)) ELSE s

RECURSIVE digits_value(_, _)
digits_value(s, acc) ==
    IF s = <<>> THEN acc ELSE digits_value(Tail(s), 10 * acc + DigitValue(Head(s)))

\* int(text): blanks around the number and a sign are accepted, then decimal
\* digits only; ok = FALSE is ValueError
int_of(text) ==
    LET body   == rstrip(lstrip(text))
        signed == body # <<>> /\ Head(body) \in {"+", "-"}
        digs   == IF signed THEN Tail(body) ELSE body
    IN  IF digs # <<>> /\ \A i \in 1..Len(digs) : IsDigit(digs[i])
        THEN [ok |-> TRUE,
              v  |-> IF signed /\ Head(body) = "-" THEN 0 - digits_value(digs, 0)
                     ELSE digits_value(digs, 0)]
        ELSE [ok |-> FALSE, v |-> 0]

\* f"{year}" for a year >= 0
RECURSIVE year_text(_)
year_text(n) ==
    IF n < 10 THEN <<DigitChars[n + 1]>>
    ELSE year_text(n \div 10) \o <<DigitChars[(n % 10) + 1]>>

\* the pairs load_historical_scales reads from the lines after the header:
\* rows of two or more cells whose first two are numbers
RECURSIVE read_pairs(_, _)
read_pairs(lines, i) ==
    IF i > Len(lines) THEN <<>>
    ELSE IF Len(lines[i]) >= 2 /\ lines[i][1].num /\ lines[i][2].num
         THEN <<[atar |-> lines[i][1].v, agg |-> lines[i][2].v]>>
              \o read_pairs(lines, i + 1)
         ELSE read_pairs(lines, i + 1)

\* list.sort(key=atar): ascending, stable
RECURSIVE insert_by_atar(_, _)
insert_by_atar(rows, row) ==
    IF rows = <<>> THEN <<row>>
    ELSE IF rows[Len(rows)].atar <= row.atar THEN Append(rows, row)
    ELSE Append(insert_by_atar(SubSeq(rows, 1, Len(rows) - 1), row), rows[Len(rows)])

RECURSIVE sort_by_atar(_, _)
sort_by_atar(rows, done) ==
    IF rows = <<>> THEN done
    ELSE sort_by_atar(Tail(rows), insert_by_atar(done, Head(rows)))

\* scales[year] = pairs
put_scale(scales, year, pairs) ==
    [y \in DOMAIN scales \cup {year} |-> IF y = year THEN pairs ELSE scales[y]]

\* the loop of load_historical_scales over the files glob lists
RECURSIVE load_loop(_, _, _)
load_loop(arch, i, scales) ==
    IF i > Len(arch) THEN scales
    ELSE IF ~int_of(arch[i].stem).ok THEN load_loop(arch, i + 1, scales)
    ELSE IF read_pairs(arch[i].lines, 2) = <<>> THEN load_loop(arch, i + 1, scales)
    ELSE load_loop(arch, i + 1,
             put_scale(scales, int_of(arch[i].stem).v,
                       sort_by_atar(read_pairs(arch[i].lines, 2), <<>>)))

\* load_historical_scales: the dict it returns (it prints nothing)
load_historical_scales(arch) == load_loop(arch, 1, <<>>)

exists(arch, stem) == \E i \in 1..Len(arch) : arch[i].stem = stem

\* open(path, 'w') and the writes: a new file, or new content for the file of
\* that name
write_file(arch, stem, lines) ==
    IF exists(arch, stem)
    THEN [i \in 1..Len(arch) |-> IF arch[i].stem = stem THEN File(stem, lines) ELSE arch[i]]
    ELSE Append(arch, File(stem, lines))

\* save_current_scale: header, then (ATAR, Aggregate) ascending by ATAR
save_current_scale(arch, res, year) ==
    write_file(arch, year_text(year),
        <<HeaderLine>> \o
        [i \in 1..Len(res) |->
            <<Num(sort_by_atar(res, <<>>)[i].atar), Num(sort_by_atar(res, <<>>)[i].agg)>>])

\* the pairs of a seed file: the curve on the grid points of its coverage,
\* rounded to 2 decimals
seed_lines(curve) ==
    <<HeaderLine>> \o
    [k \in 1..Cardinality({a \in GridSet : in_year(curve, a)}) |->
        <<Num(Max2(GridLo, curve.lo) + k - 1),
          Num(Round2(curve.val[Max2(GridLo, curve.lo) + k - 1], ACent))>>]

\* one pass of the seeding loop
seed_year(arch, year, curve) ==
    IF exists(arch, year_text(year)) THEN arch
    ELSE write_file(arch, year_text(year), seed_lines(curve))

\* _seed_years = {PREV_YEAR: .., 2023: ..}: one key when PREV_YEAR is 2023,
\* and then the 2023 curve is its value
seed_history(arch, year, prev, y23) ==
    IF year - 1 = 2023 THEN seed_year(arch, 2023, y23)
    ELSE seed_year(seed_year(arch, year - 1, prev), 2023, y23)

Msg(kind, n) == [kind |-> kind, n |-> n]

\* the check after the clamp: diffs <= 0
n_violations(b) == Cardinality({i \in 2..Len(b) : b[i] - b[i - 1] <= 0})

-----------------------------------------------------------------------------
(* Part II.  The script, section by section                                *)

\* scale_history/ as runs find it: a file whose name holds no year first,
\* then two years, the later one with its rows out of order
UsualHistory ==
    <<File(<<"o", "l", "d">>, <<HeaderLine, <<Num(60), Num(250 * AU)>>>>),
      File(year_text(2024),
           <<HeaderLine, <<Num(50), Num(200 * AU)>>, <<Num(48), Num(150 * AU)>>>>),
      File(year_text(2023),
           <<HeaderLine, <<Num(30), Num(40 * AU)>>, <<Num(90), Num(400 * AU)>>>>)>>

\* other contents: no folder; the entered year's file already there, with a
\* row whose first field is no number and a one-cell row; two files whose
\* names hold the same year
ScaleHistories == {
    <<>>,
    UsualHistory,
    <<File(year_text(2025),
           <<HeaderLine, <<Num(99), Num(480 * AU)>>, <<Junk, Num(7)>>, <<Num(45)>>,
             <<Num(50), Num(210 * AU)>>>>)>>,
    <<File(year_text(2024), <<HeaderLine, <<Num(50), Num(200 * AU)>>>>),
      File(<<"0">> \o year_text(2024), <<HeaderLine, <<Num(50), Num(205 * AU)>>>>)>> }

\* the years entered at the prompt (2023 or later)
Years == {2023, 2024, 2025}

\* the start of a run: the year is entered, nothing is computed yet
RunStart ==
    /\ AppIdle
    /\ ScaleIdle
    /\ FunIdle
    /\ pc = "load"
    /\ blended = <<>> /\ band_students = <<>> /\ cumulative = <<>>
    /\ results = <<>> /\ final_violations = 0 /\ atar_new = <<>>
    /\ historical_scales = <<>> /\ printed = <<>>
    /\ sim_agg_by_atar = <<>>

\* runs over the reference data, for 2025 on the usual archive
BuildInit ==
    /\ RunStart
    /\ interp_prev \in PrevCurves
    /\ interp_2023 \in Y23Curves
    /\ tables \in Distributions
    /\ current_year = 2025
    /\ archive = UsualHistory

\* runs over the archives and the years, on one pair of reference curves
ArchiveInit ==
    /\ RunStart
    /\ interp_prev = Line(48, 150 * AU, 6 * AU)
    /\ interp_2023 = Line(30, 40 * AU, 5 * AU)
    /\ tables \in Distributions
    /\ current_year \in Years
    /\ archive \in ScaleHistories

\* the first load_historical_scales() and its message
Load ==
    /\ pc = "load"
    /\ historical_scales' = load_historical_scales(archive)
    /\ printed' = Append(printed,
                     IF DOMAIN load_historical_scales(archive) # {}
                     THEN Msg("loaded", Cardinality(DOMAIN load_historical_scales(archive)))
                     ELSE Msg("none_found", 0))
    /\ pc' = "seed"
    /\ UNCHANGED <<interp_prev, interp_2023, tables, blended, band_students, cumulative,
                   results, final_violations, atar_new, current_year, archive,
                   appvars, scalevars, funvars, simvars>>

\* the messages of the seeding loop and of the reload after it
seed_messages(arch, year) ==
    (IF year - 1 # 2023 /\ ~exists(arch, year_text(year - 1))
     THEN <<Msg("seeded", year - 1)>> ELSE <<>>)
    \o (IF ~exists(arch, year_text(2023)) THEN <<Msg("seeded", 2023)>> ELSE <<>>)

\* the seeding of the reference years and the reload
Seed ==
    /\ pc = "seed"
    /\ archive' = seed_history(archive, current_year, interp_prev, interp_2023)
    /\ historical_scales' = load_historical_scales(archive')
    /\ printed' = printed \o seed_messages(archive, current_year)
                   \o (IF DOMAIN historical_scales' # {}
                       THEN <<Msg("available", Cardinality(DOMAIN historical_scales'))>>
                       ELSE <<>>)
    /\ pc' = "blend"
    /\ UNCHANGED <<interp_prev, interp_2023, tables, blended, band_students, cumulative,
                   results, final_violations, atar_new, current_year,
                   appvars, scalevars, funvars, simvars>>

\* the blend loop
Blend ==
    /\ pc = "blend"
    /\ blended' = blend(interp_prev, interp_2023)
    /\ pc' = "extend"
    /\ UNCHANGED <<interp_prev, interp_2023, tables, band_students, cumulative,
                   results, final_violations, atar_new, appvars, scalevars, funvars, simvars,
                   histvars, printed>>

\* the smooth extension below 48
Extend ==
    /\ pc = "extend"
    /\ blended' = smooth_extension(blended)
    /\ pc' = "monotone"
    /\ UNCHANGED <<interp_prev, interp_2023, tables, band_students, cumulative,
                   results, final_violations, atar_new, appvars, scalevars, funvars, simvars,
                   histvars, printed>>

\* the monotonicity pass
EnforceMonotone ==
    /\ pc = "monotone"
    /\ blended' = enforce_monotone(blended)
    /\ pc' = "clamp"
    /\ UNCHANGED <<interp_prev, interp_2023, tables, band_students, cumulative,
                   results, final_violations, atar_new, appvars, scalevars, funvars, simvars,
                   histvars, printed>>

\* the cap at 500 and the floor at 0; the check after them prints its count
\* and the script goes on
Clamp ==
    /\ pc = "clamp"
    /\ blended' = clamp(blended)
    /\ printed' = Append(printed, Msg("monotonicity_check", n_violations(blended')))
    /\ pc' = "bands"
    /\ UNCHANGED <<interp_prev, interp_2023, tables, band_students, cumulative,
                   results, final_violations, atar_new, appvars, scalevars, funvars, simvars,
                   histvars>>

\* band_students from table13 and table14
BandStudents ==
    /\ pc = "bands"
    /\ band_students' = build_band_students(tables)
    /\ pc' = "cumulative"
    /\ UNCHANGED <<interp_prev, interp_2023, tables, blended, cumulative,
                   results, final_violations, atar_new, appvars, scalevars, funvars, simvars,
                   histvars, printed>>

Cumulative ==
    /\ pc = "cumulative"
    /\ cumulative' = build_cumulative(band_students)
    /\ pc' = "simulate"
    /\ UNCHANGED <<interp_prev, interp_2023, tables, blended, band_students,
                   results, final_violations, atar_new, appvars, scalevars, funvars, simvars,
                   histvars, printed>>

\* the triangulation section: the simulated curve, sim_agg_by_atar, the
\* divergence report (printing only) and the optional 3-way blend
Simulate ==
    /\ pc = "simulate"
    /\ \E c \in SimCurves :
           sim_agg_by_atar' = build_sim_agg_by_atar(c, band_students, cumulative,
                                                    tables.TOTAL_STUDENTS)
    /\ blended' = three_way_blend(blended, sim_agg_by_atar')
    /\ pc' = "results"
    /\ UNCHANGED <<interp_prev, interp_2023, tables, band_students, cumulative,
                   results, final_violations, atar_new, appvars, scalevars, funvars,
                   histvars, printed>>

Results ==
    /\ pc = "results"
    /\ results' = build_results(blended, band_students, cumulative, tables)
    /\ pc' = "repair"
    /\ UNCHANGED <<interp_prev, interp_2023, tables, blended, band_students,
                   cumulative, final_violations, atar_new, appvars, scalevars, funvars, simvars,
                   histvars, printed>>

Repair ==
    /\ pc = "repair"
    /\ results' = fix_ties(results)
    /\ pc' = "check"
    /\ UNCHANGED <<interp_prev, interp_2023, tables, blended, band_students,
                   cumulative, final_violations, atar_new, appvars, scalevars, funvars, simvars,
                   histvars, printed>>

FinalCheck ==
    /\ pc = "check"
    /\ final_violations' = count_violations(results)
    /\ printed' = Append(printed, Msg("final_violations", final_violations'))
    /\ pc' = "save"
    /\ UNCHANGED <<interp_prev, interp_2023, tables, blended, band_students,
                   cumulative, results, atar_new, appvars, scalevars, funvars, simvars,
                   histvars>>

\* save_current_scale(results, CURRENT_YEAR) after the table was printed
\* and written, and the reload
SaveScale ==
    /\ pc = "save"
    /\ archive' = save_current_scale(archive, results, current_year)
    /\ historical_scales' = load_historical_scales(archive')
    /\ printed' = Append(printed, Msg("saved", current_year))
    /\ pc' = "lookup"
    /\ UNCHANGED <<interp_prev, interp_2023, tables, blended, band_students,
                   cumulative, results, final_violations, atar_new, current_year,
                   appvars, scalevars, funvars, simvars>>

\* the back-test loop's body on a row of the table itself
SelfLookup ==
    /\ pc = "lookup"
    /\ \E k \in 1..Len(results) :
          atar_new' = [atar_orig |-> results[k].atar,
                       agg_val   |-> results[k].agg,
                       atar      |-> agg_to_atar_2025(results_by_agg(results), results[k].agg)]
    /\ UNCHANGED <<pc, interp_prev, interp_2023, tables, blended, band_students,
                   cumulative, results, final_violations, appvars, scalevars, funvars, simvars,
                   histvars, printed>>

BuildNext ==
    \/ Load
    \/ Seed
    \/ Blend
    \/ Extend
    \/ EnforceMonotone
    \/ Clamp
    \/ BandStudents
    \/ Cumulative
    \/ Simulate
    \/ Results
    \/ Repair
    \/ FinalCheck
    \/ SaveScale
    \/ SelfLookup

Spec == BuildInit /\ [][BuildNext]_vars

SpecArchive == ArchiveInit /\ [][BuildNext]_vars

-----------------------------------------------------------------------------
(* Part II.  Properties                                                    *)

\* the sections that run after the blender has finished
AfterBlender == {"bands", "cumulative", "simulate", "results", "repair", "check", "save", "lookup"}
AfterCumulative == {"simulate", "results", "repair", "check", "save", "lookup"}
AfterRepair == {"check", "save", "lookup"}

\* C1: after the repair pass every row of results has an aggregate strictly
\* below the aggregate of the row before it (the next higher band), and the
\* final check counts 0 violations.
C1_RepairedTableStrictlyDescending ==
    /\ pc \in AfterRepair =>
          \A i \in 2..Len(results) : results[i].agg < results[i - 1].agg
    /\ pc = "lookup" => final_violations = 0

\* the repair pass had rows to repair (ties or reversals), and the check ran
C1_Witness ==
    /\ pc = "lookup"
    /\ Len(results) >= 3
    /\ LET raw == build_results(blended, band_students, cumulative, tables)
       IN  /\ \E i \in 2..Len(raw) : raw[i].agg = raw[i - 1].agg /\ raw[i].agg > 0
           /\ raw # results

\* C2 (as claimed): the blender's output, after the monotonicity pass and
\* the clamp to [0, 500], is strictly increasing along the grid.
C2_BlendedStrictlyIncreasing ==
    pc \in AfterBlender =>
        \A i \in 2..GridLen : blended[i] > blended[i - 1]

\* the rank that the exact fraction f denotes is r
IsRank(f, r) == f.den > 0 /\ f.num = r * f.den

\* C5: on the finished table, agg_to_atar_2025 of any row's own aggregate is
\* exactly that row's rank-score, so the shift of the row against its own
\* table is 0; the lowest and the highest row included.
C5_SelfLookupIsExact ==
    pc = "lookup" =>
        /\ \A k \in 1..Len(results) :
              IsRank(agg_to_atar_2025(results_by_agg(results), results[k].agg),
                     results[k].atar)
        /\ atar_new # <<>> => IsRank(atar_new.atar, atar_new.atar_orig)

\* the lookup ran on a row that is neither the lowest nor the highest, of a
\* table that the repair pass changed
C5_Witness ==
    /\ pc = "lookup"
    /\ atar_new # <<>>
    /\ Len(results) >= 3
    /\ atar_new.atar_orig # results[1].atar
    /\ atar_new.atar_orig # results[Len(results)].atar
    /\ atar_new.atar.den > 1
    /\ results # build_results(blended, band_students, cumulative, tables)

\* T: the sum of the range totals of table14
RECURSIVE SumTotals(_)
SumTotals(t14) == IF t14 = <<>> THEN 0 ELSE Head(t14).total + SumTotals(Tail(t14))

LowestBand == CHOOSE b \in DOMAIN cumulative : \A c \in DOMAIN cumulative : b <= c

ListedIn(t, r) == {i \in 1..Len(t.table13) : t.table13[i].atar \in r.low..r.high}
ListedSum(t, r) == SumOver([i \in 1..Len(t.table13) |-> t.table13[i].count], ListedIn(t, r))

\* table13 and table14 agree: the ranges are disjoint, every listed band is
\* listed once and lies in a range, and in every range the listed bands sum
\* to the range total, or to less with a band of the range left unlisted
Consistent(t) ==
    /\ \A i, j \in 1..Len(t.table14) :
          i # j => (t.table14[i].low..t.table14[i].high)
                     \cap (t.table14[j].low..t.table14[j].high) = {}
    /\ \A i, j \in 1..Len(t.table13) : i # j => t.table13[i].atar # t.table13[j].atar
    /\ \A i \in 1..Len(t.table13) :
          \E j \in 1..Len(t.table14) :
              t.table13[i].atar \in t.table14[j].low..t.table14[j].high
    /\ \A j \in 1..Len(t.table14) :
          LET r == t.table14[j]
          IN  \/ ListedSum(t, r) = r.total
              \/ /\ ListedSum(t, r) < r.total
                 /\ Cardinality(ListedIn(t, r)) < r.high - r.low + 1

\* C6 (amended): when table13 and table14 agree, the cumulative count at the
\* lowest band equals T, the sum of the range totals.
C6_CumulativeAtLowestBandIsTotal ==
    (pc \in AfterCumulative /\ Consistent(tables)) =>
        cumulative[LowestBand] = SumTotals(tables.table14)

\* a range listed in part, its remainder spread unevenly over the other bands
C6_Witness ==
    /\ pc \in AfterCumulative
    /\ Consistent(tables)
    /\ \E j \in 1..Len(tables.table14) :
          LET r == tables.table14[j]
          IN  /\ 0 < ListedSum(tables, r) /\ ListedSum(tables, r) < r.total
              /\ \E b, c \in r.low..r.high :
                    b \notin {tables.table13[i].atar : i \in 1..Len(tables.table13)}
                    /\ c \notin {tables.table13[i].atar : i \in 1..Len(tables.table13)}
                    /\ band_students[b] # band_students[c]

\* C6 (as claimed): the cumulative count at the lowest band equals T for
\* every combination of table13 and table14.
C6_AnyTablesCumulativeIsTotal ==
    pc \in AfterCumulative => cumulative[LowestBand] = SumTotals(tables.table14)

\* the scenario of C7: the previous year bottoms out at 48, 2023 at 30
BottomsAt48And30 == interp_prev.lo = 48 /\ interp_2023.lo = 30

\* the previous year's weight at a is faded exactly on [48, 48 + FADE_ZONE_PREV)
\* and is the base weight from there upward
FadeOnZoneOnly ==
    \A i \in 1..GridLen :
        LET a == atar_grid[i]
        IN  /\ (interp_prev.lo <= a /\ a < interp_prev.lo + FADE_ZONE_PREV)
                  => w_p(interp_prev, a) < BaseWeightPrev
            /\ a >= interp_prev.lo + FADE_ZONE_PREV
                  => w_p(interp_prev, a) = BaseWeightPrev

\* C7 (amended): in the scenario, the blend loop's value at every grid point
\* below 48 is the 2023 curve's value there (the previous year's weight is
\* 0); the previous year's weight is below its base weight exactly on the
\* grid points of [48, 56) and is the base weight from 56 upward.
C7_BlendLoopBelow48IsLowerCurve ==
    (pc = "extend" /\ BottomsAt48And30) =>
        /\ \A i \in 1..GridLen :
              atar_grid[i] < 48 =>
                  /\ w_p(interp_prev, atar_grid[i]) = 0
                  /\ blended[i] = interp_2023.val[atar_grid[i]]
        /\ FadeOnZoneOnly

\* the loop has run on a grid with points below 48, in the fade zone (where
\* the previous year moves the blend) and above it
C7_Witness ==
    /\ pc = "extend" /\ BottomsAt48And30
    /\ \E i \in 1..GridLen : atar_grid[i] < 48
    /\ \E i \in 1..GridLen :
          /\ 48 < atar_grid[i] /\ atar_grid[i] < 48 + FADE_ZONE_PREV
          /\ 0 < w_p(interp_prev, atar_grid[i])
          /\ blended[i] # interp_2023.val[atar_grid[i]]
    /\ \E i \in 1..GridLen : atar_grid[i] >= 48 + FADE_ZONE_PREV

\* C7 (as claimed): in the scenario, the blender's output at every grid
\* point below 48 is determined by the 2023 curve alone (any previous-year
\* curve that bottoms out at 48 gives the same output there), with the fade
\* exactly on [48, 56).
C7_OutputBelow48IsLowerCurveOnly ==
    (pc \in AfterBlender /\ BottomsAt48And30) =>
        /\ \A c \in PrevCurves :
              c.lo = 48 =>
                  \A i \in 1..GridLen :
                      atar_grid[i] < 48 => blender(c, interp_2023)[i] = blended[i]
        /\ FadeOnZoneOnly

-----------------------------------------------------------------------------
(* Part II.  Properties of the checks and of the archive                   *)

\* C14 (as claimed): once the check after the clamp has counted a violation
\* on the blended curve, the run is over: it stays where the check left it,
\* no table is built from the curve (so none is repaired, written or
\* archived).
C14_ViolationEndsRun ==
    \A k \in 1..Len(printed) :
        printed[k].kind = "monotonicity_check" /\ printed[k].n > 0
            => pc = "bands" /\ results = <<>>

\* C15 (as claimed): no step of a run changes or removes a file that is in
\* the archive, and a file is added by the save at the end of the run only,
\* one at most.
C15_ArchiveAppendOnly ==
    [][/\ Len(archive') >= Len(archive)
       /\ \A i \in 1..Len(archive) : archive'[i] = archive[i]
       /\ Len(archive') > Len(archive)
            => pc = "save" /\ Len(archive') = Len(archive) + 1]_vars

\* a line of a file after its header that load_historical_scales cannot use
BadLine(line) == ~(Len(line) >= 2 /\ line[1].num /\ line[2].num)

\* an unparsable entry: a file whose name holds no integer year, or a row
\* whose two fields are not both numbers
Unparsable(f) ==
    \/ ~int_of(f.stem).ok
    \/ \E i \in 2..Len(f.lines) : BadLine(f.lines[i])

\* C16 (as claimed): once the archive is loaded, a warning was printed if it
\* holds an unparsable entry; every row of two numbers of every file whose
\* name holds a year is in the loaded scale of that year; every loaded scale
\* is ascending by rank-score.
C16_SkipsWithWarningKeepsRest ==
    pc # "load" =>
        /\ (\E i \in 1..Len(archive) : Unparsable(archive[i]))
              => \E k \in 1..Len(printed) : printed[k].kind = "warning"
        /\ \A i \in 1..Len(archive) :
              int_of(archive[i].stem).ok =>
                  \A j \in 2..Len(archive[i].lines) :
                      ~BadLine(archive[i].lines[j]) =>
                          /\ int_of(archive[i].stem).v \in DOMAIN historical_scales
                          /\ \E k \in 1..Len(historical_scales[int_of(archive[i].stem).v]) :
                                historical_scales[int_of(archive[i].stem).v][k]
                                    = [atar |-> archive[i].lines[j][1].v,
                                       agg  |-> archive[i].lines[j][2].v]
        /\ \A y \in DOMAIN historical_scales :
              \A k \in 2..Len(historical_scales[y]) :
                  historical_scales[y][k - 1].atar <= historical_scales[y][k].atar

\* C18: with SIM_BLEND_WEIGHT = 0 the triangulation section leaves blended
\* and the rank-score -> aggregate lookup as they were before it, whatever
\* the simulated curve is.
C18_SimulationLeavesBlend ==
    [][Simulate /\ SIM_BLEND_WEIGHT = 0 =>
          /\ blended' = blended
          /\ \A a \in GridSet \cup DOMAIN band_students :
                 agg_lookup_get(blended', a) = agg_lookup_get(blended, a)]_vars

\* the section has run, and the simulation disagrees with the history at a
\* band of the grid
C18_Witness ==
    /\ pc = "results"
    /\ SIM_BLEND_WEIGHT = 0
    /\ \E a \in GridSet \cap DOMAIN sim_agg_by_atar :
           sim_agg_by_atar[a] # agg_lookup_get(blended, a)

-----------------------------------------------------------------------------
(* Part II.  Properties of the blend loop and of the extension             *)

\* (w_p * v_p + w_2 * v_2) / total_w at a, on the curves' own values
weighted_average(prev, y23, a) ==
    (w_p(prev, a) * (IF in_year(prev, a) THEN prev.val[a] ELSE 0)
       + w_2(y23, a) * (IF in_year(y23, a) THEN y23.val[a] ELSE 0))
    \div total_w(prev, y23, a)

\* C19 (as claimed): after the blend loop, at every grid point that a
\* reference curve covers the loop has taken the weighted-average branch
\* (total weight above 0) and the value is the average of the covering
\* curves' values under the normalised weights; at a point that exactly one
\* curve covers the value is that curve's value, the curve's low coverage
\* edge included; the extrapolation branch (total weight 0) is taken only
\* at points that no curve covers.
C19_BlendIsNormalisedAverage ==
    pc = "extend" =>
        \A i \in 1..GridLen :
            LET a == atar_grid[i]
            IN  /\ (in_year(interp_prev, a) \/ in_year(interp_2023, a)) =>
                      /\ total_w(interp_prev, interp_2023, a) > 0
                      /\ blended[i] = weighted_average(interp_prev, interp_2023, a)
                /\ (in_year(interp_prev, a) /\ ~in_year(interp_2023, a)) =>
                      blended[i] = interp_prev.val[a]
                /\ (in_year(interp_2023, a) /\ ~in_year(interp_prev, a)) =>
                      blended[i] = interp_2023.val[a]
                /\ total_w(interp_prev, interp_2023, a) = 0 =>
                      ~in_year(interp_prev, a) /\ ~in_year(interp_2023, a)

\* the 0-based indices of the extension, on the grid of the model
SmoothIdx == searchsorted(atar_grid, SMOOTH_BELOW)
UpperIdx == searchsorted(atar_grid, SmoothUpper)

\* the rise of the blend loop's output between ranks 48 and 52: g times the
\* number of steps between them
BlendRise == blend(interp_prev, interp_2023)[UpperIdx + 1]
                 - blend(interp_prev, interp_2023)[SmoothIdx + 1]

\* g * max(1 - 0.0003 * k, 0.85) for the k-th step below the cutoff
StepDown(k) ==
    (BlendRise * Max2(DecelUnit - DecelPerStep * k, DecelFloor))
        \div ((UpperIdx - SmoothIdx) * DecelUnit)

\* the blend loop's output with v at every grid point below the cutoff
BlendWithBelow(v) ==
    [i \in 1..GridLen |->
        IF i <= SmoothIdx THEN v ELSE blend(interp_prev, interp_2023)[i]]

\* the extension's value formula, and its independence of what the blend
\* loop computed below the cutoff
ExtensionFormula ==
    /\ \A i \in 1..SmoothIdx :
          blended[i] = blended[i + 1] - StepDown(SmoothIdx - (i - 1))
    /\ \A i \in (SmoothIdx + 1)..GridLen :
          blended[i] = blend(interp_prev, interp_2023)[i]
    /\ \A v \in {0, AggCap * AU} : smooth_extension(BlendWithBelow(v)) = blended

-----------------------------------------------------------------------------
(* Part II.  Properties of the final table's range                         *)

\* C24 (as claimed): every aggregate of the final table, after the clamp of
\* the blended curve, the rounding per band, the default for a band that is
\* not on the grid and the repair pass, lies in [0, 500].
C24_FinalAggregatesInRange ==
    pc \in AfterRepair =>
        \A k \in 1..Len(results) :
            0 <= results[k].agg /\ results[k].agg <= AggCap * AU

-----------------------------------------------------------------------------

(* Part II.  clean_and_average on any data                                 *)

\* the longest data list tried
MaxData == 3

\* np.mean of up to 5 values is exact in 1/MeanDen of a hundredth
MeanDen == 3 * 4 * 5

\* the (aggregate, rank-score) pairs tried: aggregates in hundredths
DataPairs == {[agg |-> g, atar |-> a] : g \in {100, 101, 300}, a \in {1, 2, 3}}

RECURSIVE DataLists(_)
DataLists(n) ==
    IF n = 0 THEN {<<>>}
    ELSE DataLists(n - 1)
           \cup {Append(d, p) : d \in {e \in DataLists(n - 1) : Len(e) = n - 1},
                                p \in DataPairs}

\* the index after the last entry of the run of equal rank-scores from i
RECURSIVE run_end(_, _, _)
run_end(rows, i, j) ==
    IF j <= Len(rows) /\ rows[j].atar = rows[i].atar
    THEN run_end(rows, i, j + 1) ELSE j

\* np.mean(agg_s[i:j]), in 1/MeanDen of a hundredth
mean_agg(rows, i, j) ==
    (MeanDen * SumSeq([k \in 1..(j - i) |-> rows[i + k - 1].agg])) \div (j - i)

\* the while loop: one (rank-score, mean aggregate) per run
RECURSIVE average_loop(_, _, _)
average_loop(rows, i, out) ==
    IF i > Len(rows) THEN out
    ELSE average_loop(rows, run_end(rows, i, i),
             [atars |-> Append(out.atars, rows[i].atar),
              aggs  |-> Append(out.aggs, mean_agg(rows, i, run_end(rows, i, i)))])

\* u_atars, u_aggs before the repair
average_by_atar(data) ==
    average_loop(sort_by_atar(data, <<>>), 1, [atars |-> <<>>, aggs |-> <<>>])

\* a plausible slip: an entry equal to its predecessor is left alone
RECURSIVE repair_loop_lt(_, _)
repair_loop_lt(u, k) ==
    IF k > Len(u) THEN u
    ELSE repair_loop_lt(IF u[k] < u[k - 1]
                        THEN [u EXCEPT ![k] = u[k - 1] + MeanDen] ELSE u, k + 1)

\* the repair: an entry not above its predecessor becomes predecessor + 0.01
RECURSIVE repair_loop(_, _)
repair_loop(u, k) ==
    IF k > Len(u) THEN u
    ELSE repair_loop(IF u[k] <= u[k - 1]
                     THEN [u EXCEPT ![k] = u[k - 1] + MeanDen] ELSE u, k + 1)

clean_and_average(data) ==
    [atars |-> average_by_atar(data).atars,
     aggs  |-> repair_loop(average_by_atar(data).aggs, 2)]

\* clean_and_average is about to be called on any non-empty data list
CleanInit ==
    /\ AppIdle /\ BuildIdle /\ ScaleIdle
    /\ sim_curve = <<>>
    /\ cleaned \in {[data |-> d, done |-> FALSE, atars |-> <<>>, aggs |-> <<>>] :
                       d \in DataLists(MaxData) \ {<<>>}}

CleanAndAverage ==
    /\ cleaned # <<>> /\ ~cleaned.done
    /\ cleaned' = [data  |-> cleaned.data, done |-> TRUE,
                   atars |-> clean_and_average(cleaned.data).atars,
                   aggs  |-> clean_and_average(cleaned.data).aggs]
    /\ UNCHANGED <<appvars, buildvars, scalevars, sim_curve>>

SpecClean == CleanInit /\ [][CleanAndAverage]_vars

\* the input aggregates whose rank-score is a, and their sum
AggsAt(data, a) == {i \in 1..Len(data) : data[i].atar = a}
SumAt(data, a) == SumOver([i \in 1..Len(data) |-> data[i].agg], AggsAt(data, a))

C21_WitnessCascade ==
    /\ cleaned # <<>> /\ cleaned.done
    /\ Len(cleaned.atars) = 3
    /\ average_by_atar(cleaned.data).aggs[3] > average_by_atar(cleaned.data).aggs[2]
    /\ cleaned.aggs[3] # average_by_atar(cleaned.data).aggs[3]

-----------------------------------------------------------------------------
(* Part II.  simulate_aggregate_curve on any subjects                      *)

\* the grid of the simulation: raw_pct = i * 0.5 for i in 0..SimSteps (200
\* in the source), and the longest list of subjects tried
SimSteps == 8
MaxSim == 6
TopN == 5

\* a row of course_scales_2025.csv as the simulation reads it: Min.x in
\* quarters of a raw point, Max.y in hundredths, and the quartic by its
\* coefficients in i = 2 * raw (X4 first), in hundredths
SimSubject(min_x, max_y, X) == [min_x |-> min_x, max_y |-> max_y, X |-> X]

\* a line that starts below 0 and passes its Max.y; a quartic with a dip,
\* from raw 0.75 on; a cubic from raw 2.0 on with a high Max.y
SimSubjects == {
    SimSubject(0, 3000, <<0, 0, 0, 1000, 0 - 500>>),
    SimSubject(3, 2500, <<1, 0, 0 - 20, 0, 2000>>),
    SimSubject(8, 10000, <<0, 1, 0, 0, 0>>) }

RECURSIVE SimLists(_)
SimLists(n) ==
    IF n = 0 THEN {<<>>}
    ELSE SimLists(n - 1)
           \cup {Append(d, p) : d \in {e \in SimLists(n - 1) : Len(e) = n - 1},
                                p \in SimSubjects}

\* X4*r**4 + X3*r**3 + X2*r**2 + X1*r + X0 at grid index i
quartic(X, i) == X[1] * i * i * i * i + X[2] * i * i * i + X[3] * i * i + X[4] * i + X[5]

\* eval_scaling_poly(subj, raw_pct) at grid index i (raw_pct = i / 2)
eval_scaling_poly(subj, i) ==
    IF 2 * i < subj.min_x THEN 0
    ELSE Max2(0, Min2(quartic(subj.X, i), subj.max_y))

\* the inner loop: the scaled scores of the subjects with raw_pct >= min_x
RECURSIVE scaled_scores(_, _)
scaled_scores(subs, i) ==
    IF subs = <<>> THEN <<>>
    ELSE (IF 2 * i >= Head(subs).min_x
          THEN <<eval_scaling_poly(Head(subs), i)>> ELSE <<>>)
         \o scaled_scores(Tail(subs), i)

\* list.sort(reverse=True)
RECURSIVE insert_desc(_, _)
insert_desc(sorted, v) ==
    IF sorted = <<>> THEN <<v>>
    ELSE IF v > Head(sorted) THEN <<v>> \o sorted
    ELSE <<Head(sorted)>> \o insert_desc(Tail(sorted), v)

RECURSIVE sort_desc(_, _)
sort_desc(vals, done) ==
    IF vals = <<>> THEN done ELSE sort_desc(Tail(vals), insert_desc(done, Head(vals)))

\* a plausible slip: every qualifying score is summed
aggregate_of_all(scores) == SumSeq(scores)

\* sum(scaled_scores[:5]) after the sort
aggregate_of(scores) ==
    SumSeq(SubSeq(sort_desc(scores, <<>>), 1, Min2(TopN, Len(scores))))

\* the (raw_pct, aggregate) pairs, raw_pct by its grid index
simulate_aggregate_curve(subs) ==
    [k \in 1..(SimSteps + 1) |->
        [i |-> k - 1, aggregate |-> aggregate_of(scaled_scores(subs, k - 1))]]

\* simulate_aggregate_curve is about to be called on any list of subjects
SimInit ==
    /\ AppIdle /\ BuildIdle /\ ScaleIdle
    /\ cleaned = <<>>
    /\ sim_curve \in {[subjects |-> d, done |-> FALSE, results |-> <<>>] :
                         d \in SimLists(MaxSim)}

SimulateAggregateCurve ==
    /\ sim_curve # <<>> /\ ~sim_curve.done
    /\ sim_curve' = [subjects |-> sim_curve.subjects, done |-> TRUE,
                     results  |-> simulate_aggregate_curve(sim_curve.subjects)]
    /\ UNCHANGED <<appvars, buildvars, scalevars, cleaned>>

SpecSim == SimInit /\ [][SimulateAggregateCurve]_vars

\* the subjects (by position) whose Min.x is at most the raw score of index i
Qualifying(subs, i) == {n \in 1..Len(subs) : subs[n].min_x <= 2 * i}

\* the quartic of subject n at index i, clamped to [0, Max.y]
Clamped(subs, n, i) == Max2(0, Min2(quartic(subs[n].X, i), subs[n].max_y))

\* K is a choice of the largest scores at index i: TopN of the qualifying
\* subjects (all of them when fewer qualify), none below one left out
LargestAt(subs, i, K) ==
    /\ K \subseteq Qualifying(subs, i)
    /\ Cardinality(K) = Min2(TopN, Cardinality(Qualifying(subs, i)))
    /\ \A n \in K : \A m \in Qualifying(subs, i) \ K :
          Clamped(subs, n, i) >= Clamped(subs, m, i)

LargestMaxY(subs) ==
    IF subs = <<>> THEN 0
    ELSE CHOOSE v \in {subs[n].max_y : n \in 1..Len(subs)} :
             \A n \in 1..Len(subs) : subs[n].max_y <= v

\* C23: for every raw score of the simulation grid, the simulated aggregate
\* is the sum of the clamped quartics of the 5 largest (all, when fewer than
\* 5 qualify) among the subjects whose Min.x is at most the raw score; a
\* subject's scaled score is 0 below its Min.x; the aggregate lies between 0
\* and 5 times the largest Max.y.
C23_AggregateIsTopFive ==
    (sim_curve # <<>> /\ sim_curve.done) =>
        /\ Len(sim_curve.results) = SimSteps + 1
        /\ \A k \in 1..(SimSteps + 1) :
              /\ sim_curve.results[k].i = k - 1
              /\ \E K \in SUBSET Qualifying(sim_curve.subjects, k - 1) :
                    /\ LargestAt(sim_curve.subjects, k - 1, K)
                    /\ sim_curve.results[k].aggregate
                         = SumOver([n \in 1..Len(sim_curve.subjects) |->
                                       Clamped(sim_curve.subjects, n, k - 1)], K)
              /\ 0 <= sim_curve.results[k].aggregate
              /\ sim_curve.results[k].aggregate
                    <= TopN * LargestMaxY(sim_curve.subjects)
              /\ \A n \in 1..Len(sim_curve.subjects) :
                    2 * (k - 1) < sim_curve.subjects[n].min_x
                        => eval_scaling_poly(sim_curve.subjects[n], k - 1) = 0

\* more than 5 subjects qualify at a raw score with scores that differ, one
\* score clamped at 0, one at its Max.y, and at another raw score a subject
\* is below its Min.x
C23_Witness ==
    /\ sim_curve # <<>> /\ sim_curve.done
    /\ \E k \in 1..(SimSteps + 1) :
          /\ Cardinality(Qualifying(sim_curve.subjects, k - 1)) > TopN
          /\ sim_curve.results[k].aggregate
                < SumSeq(scaled_scores(sim_curve.subjects, k - 1))
    /\ \E k \in 1..(SimSteps + 1) : \E n \in 1..Len(sim_curve.subjects) :
          quartic(sim_curve.subjects[n].X, k - 1) < 0
    /\ \E k \in 1..(SimSteps + 1) : \E n \in Qualifying(sim_curve.subjects, k - 1) :
          quartic(sim_curve.subjects[n].X, k - 1) > sim_curve.subjects[n].max_y
    /\ \E k \in 1..(SimSteps + 1) :
          Qualifying(sim_curve.subjects, k - 1) # 1..Len(sim_curve.subjects)

-----------------------------------------------------------------------------

(* Part III.  The Max anchor: estimate_max and build_general on any row    *)

\* P90 and P99 of the rows tried: raw values in points, scaled values in
\* hundredths; P99.x = P90.x, P99.x < P90.x, falling and steep scaled values,
\* and a P99.y above 100
P90X == {80}
P99X == {60, 80, 99}
P90Y == {5000, 9900}
P99Y == {4000, 9960, 10000, 10050}

MaxRows ==
    {[code |-> "0001", name |-> "Row", has_data |-> TRUE,
      X |-> <<20, 40, 50, a, b>>, Y |-> <<2000, 4000, 6000, c, d>>] :
        a \in P90X, b \in P99X, c \in P90Y, d \in P99Y}

\* a plausible slip: the cap at 100 left out
estimate_max_uncapped(p90x, p99x, p90y, p99y) ==
    LET max_x == Min2(100 * XU, p99x + Max2(1 * XU, p99x - p90x))
        ext   == IF p99x > p90x
                 THEN p99y + ((p99y - p90y) * ((max_x - p99x) \div XU))
                               \div ((p99x - p90x) \div XU)
                 ELSE p99y
    IN  [max_x |-> max_x, max_y |-> Max2(ext, p99y + YU \div 2)]

\* estimate_max: raw values in raw units (whole points), scaled in scaled
\* units
estimate_max(p90x, p99x, p90y, p99y) ==
    LET max_x == Min2(100 * XU, p99x + Max2(1 * XU, p99x - p90x))
        ext   == IF p99x > p90x
                 THEN p99y + ((p99y - p90y) * ((max_x - p99x) \div XU))
                               \div ((p99x - p90x) \div XU)
                 ELSE p99y
    IN  [max_x |-> max_x, max_y |-> Min2(100 * YU, Max2(ext, p99y + YU \div 2))]

\* process_general_subject, the P90, P99 and Max fields of the row it returns
ProcessGeneralSubject ==
    \E row \in MaxRows :
        /\ scale_row' =
              [p90x |-> row.X[4] * XU, p99x |-> row.X[5] * XU,
               p90y |-> row.Y[4] * YCent, p99y |-> row.Y[5] * YCent,
               max  |-> estimate_max(row.X[4] * XU, row.X[5] * XU,
                                     row.Y[4] * YCent, row.Y[5] * YCent)]
        /\ UNCHANGED <<appvars, buildvars, funvars>>

\* the builds of the one-row PDFs, once per lsq
BuiltRows ==
    [m \in 0..(LsqModes - 1), row \in MaxRows |->
        BuildAll(m, [general |-> <<row>>, applied |-> <<>>])]

\* _upload_pdf of a PDF whose one general row is any of the rows tried
UploadRow ==
    \E row \in MaxRows :
        /\ subjects' = BuiltRows[lsq, row]
        /\ pdf_loaded' = TRUE
        /\ current_idx' = 0
        /\ dialog' = Dialog("pdf_loaded")
        /\ UNCHANGED <<drag_type, lsq, buildvars, scalevars, funvars>>

ScaleNext ==
    \/ ProcessGeneralSubject
    \/ UploadRow

SpecScale == AppInit /\ [][ScaleNext]_vars

\* C13: every built general subject with P99.y <= 100 has Max.x = 100 and
\* P99.y <= Max.y <= 100, and every row of process_general_subject with
\* P99.y <= 100 has Max.x <= 100 and P99.y <= Max.y <= 100, whatever P90 and
\* P99 are (equal x, falling x, falling y included).
C13_MaxAnchorWithinBounds ==
    /\ \A i \in GeneralIdx :
          HasCurve(subjects[i]) /\ subjects[i].p99y <= 100 * YU
            => /\ subjects[i].max_x = 100 * XU
               /\ subjects[i].p99y <= subjects[i].max_y
               /\ subjects[i].max_y <= 100 * YU
    /\ scale_row # <<>> /\ scale_row.p99y <= 100 * YU
          => /\ scale_row.max.max_x <= 100 * XU
             /\ scale_row.p99y <= scale_row.max.max_y
             /\ scale_row.max.max_y <= 100 * YU

\* both functions have met a steep rise that the cap cut to 100, and
\* build_general a row with P99.x = P90.x
C13_Witness ==
    /\ scale_row # <<>>
    /\ scale_row.p99x > scale_row.p90x /\ scale_row.p99y < 100 * YU
    /\ scale_row.max.max_y = 100 * YU
    /\ \E i \in GeneralIdx :
          /\ subjects[i].p99x = subjects[i].p90x
          /\ subjects[i].max_y = subjects[i].p99y + YU \div 2

-----------------------------------------------------------------------------
(* Part I.  Properties of the anchors                                      *)

\* C11 (as claimed): every general subject has Min.x <= P25.x - 2g, g the
\* smallest adjacent gap of the five fixed anchor x values, after every
\* operation; subjects with P25.x - 2g < 0 included.
C11_MinXLeavesTwoGaps ==
    \A i \in GeneralIdx :
        subjects[i].min_x <= subjects[i].p25x - 2 * SmallestGap(subjects[i])

\* the ten values of the five fixed anchors
FixedAnchors(s) == pdf_xs(s) \o pdf_ys(s)

\* C12: in every state reached by any sequence of drags of Min or PZ,
\* Auto-Fit (one subject or all), Reset, Commit and Commit All (each ending
\* in compute_polynomials where the code calls it) after an upload, every
\* subject has the ten fixed-anchor values that the build from its PDF gave
\* it.
C12_FixedAnchorsNeverChange ==
    subjects # <<>> =>
        \E d \in Pdfs :
            /\ Len(subjects) = Len(Built[lsq, d])
            /\ \A i \in 1..Len(subjects) :
                   /\ subjects[i].code = Built[lsq, d][i].code
                   /\ FixedAnchors(subjects[i]) = FixedAnchors(Built[lsq, d][i])

\* a general subject whose Min and PZ were both moved and which was then
\* committed
C12_Witness ==
    \E i \in GeneralIdx :
        /\ HasCurve(subjects[i])
        /\ subjects[i].min_x # DefaultBoundary(subjects[i]).min_x
        /\ subjects[i].pzy # DefaultBoundary(subjects[i]).pzy
        /\ subjects[i].committed

-----------------------------------------------------------------------------
(* Part I.  Properties of Auto-Fit All                                     *)

\* C17: a step of Auto-Fit All with eligible subjects hands every eligible
\* subject to auto_optimize_subject exactly once, in list order, whether or
\* not earlier ones failed; the dialog's succeeded count plus the number of
\* failed names is the number of eligible subjects; every eligible subject's
\* record is what its own optimizer call left, every other record is
\* unchanged.
C17_AutoFitAllVisitsEveryEligible ==
    [][dialog'.kind = "autofit_all_complete" /\ AutoFitAll
       => /\ auto_fit_all(lsq, subjects).calls = eligible(subjects)
          /\ dialog'.kind = "autofit_all_complete"
          /\ dialog'.succeeded + Len(dialog'.failed) = Len(eligible(subjects))
          /\ Len(subjects') = Len(subjects)
          /\ \A i \in 1..Len(subjects) :
                 subjects'[i] =
                    IF \E k \in 1..Len(eligible(subjects)) : eligible(subjects)[k] = i
                    THEN auto_optimize_subject(lsq, subjects[i]).s
                    ELSE subjects[i]]_vars

\* Auto-Fit All has run on two eligible subjects: the first failed, the
\* second was fitted after it
C17_Witness ==
    /\ dialog.kind = "autofit_all_complete"
    /\ Len(eligible(subjects)) = 2
    /\ dialog.succeeded = 1
    /\ dialog.failed = <<subjects[eligible(subjects)[1]].name>>

-----------------------------------------------------------------------------
(* Part I.  Properties of the optimizer's choice                           *)

\* the grid cells (mi, pyi)
Cells == (0..n_mx) \X (0..n_pzy)

\* the quartic fitted in cell (mi, pyi) of subject s
CellFit(mode, s, mi, pyi) ==
    fit_poly_4(mode, CellPoint(s, mi, pyi).xs, CellPoint(s, mi, pyi).ys)

\* whether the cell's quartic passes the derivative check, and its largest
\* residual over the eight anchors
CellEntry(mode, s, mi, pyi) ==
    [mono |-> CellFit(mode, s, mi, pyi).mono,
     err  |-> MaxResidual(CellFit(mode, s, mi, pyi), CellPoint(s, mi, pyi).xs,
                          CellPoint(s, mi, pyi).ys, 8)]

\* the entries of row mi up to pyi, and of the rows up to mi (index + 1)
RECURSIVE RowEntries(_, _, _, _)
RowEntries(mode, s, mi, pyi) ==
    IF pyi < 0 THEN <<>>
    ELSE Append(RowEntries(mode, s, mi, pyi - 1), CellEntry(mode, s, mi, pyi))

RECURSIVE GridEntries(_, _, _)
GridEntries(mode, s, mi) ==
    IF mi < 0 THEN <<>>
    ELSE Append(GridEntries(mode, s, mi - 1), RowEntries(mode, s, mi, n_pzy))

\* c is scanned before d, or is d
ScannedFirst(c, d) == c[1] < d[1] \/ (c[1] = d[1] /\ c[2] <= d[2])

\* the passing cells of a grid of entries whose error is e
CellsAt(t, e) == {c \in Cells : t[c[1] + 1][c[2] + 1].mono /\ t[c[1] + 1][c[2] + 1].err = e}

\* the errors of the passing cells
PassingErrs(t) == {t[c[1] + 1][c[2] + 1].err :
                      c \in {d \in Cells : t[d[1] + 1][d[2] + 1].mono}}

LeastOf(S) == CHOOSE e \in S : \A f \in S : e <= f

\* of a non-empty set of cells, the one scanned first
FirstOf(S) == CHOOSE c \in S : \A d \in S : ScannedFirst(c, d)

\* what the grid of entries t determines: the first cell in scan order among
\* the passing cells of least error, whether that error is shared, whether
\* a failing cell, and a passing cell of larger error, is scanned before it
best_of(t) ==
    IF PassingErrs(t) = {} THEN [found |-> FALSE]
    ELSE [found  |-> TRUE,
          cell   |-> FirstOf(CellsAt(t, LeastOf(PassingErrs(t)))),
          shared |-> Cardinality(CellsAt(t, LeastOf(PassingErrs(t)))) > 1,
          after_failing |->
              \E d \in Cells :
                  /\ ~t[d[1] + 1][d[2] + 1].mono
                  /\ ScannedFirst(d, FirstOf(CellsAt(t, LeastOf(PassingErrs(t))))),
          after_worse |->
              \E d \in Cells :
                  /\ t[d[1] + 1][d[2] + 1].mono
                  /\ t[d[1] + 1][d[2] + 1].err > LeastOf(PassingErrs(t))
                  /\ ScannedFirst(d, FirstOf(CellsAt(t, LeastOf(PassingErrs(t)))))]

\* per lsq and subject whose search ranges are not empty
FirstBest ==
    [m \in 0..(LsqModes - 1), code \in {it.code : it \in GeneralItems} |->
        IF build_general(m, ItemOf(code)).p25x
               - 2 * min_gap(build_general(m, ItemOf(code))) < 0
           \/ YU \div 10 >= Frac95(build_general(m, ItemOf(code)).p25y)
        THEN [found |-> FALSE]
        ELSE best_of(GridEntries(m, build_general(m, ItemOf(code)), n_mx))]

\* s carries the anchors of cell c of its own grid
AppliedCell(s, c) ==
    /\ c \in Cells
    /\ s.min_x = CellPoint(s, c[1], c[2]).mx
    /\ s.pzx = CellPoint(s, c[1], c[2]).pzx
    /\ s.pzy = CellPoint(s, c[1], c[2]).pzy
    /\ s.min_y = 0

\* C22: when auto_optimize_subject has succeeded (Auto-Fit on the selected
\* subject, or Auto-Fit All on every subject it does not report as failed),
\* the subject's Min and PZ are those of a grid cell whose quartic passes
\* the derivative check, whose largest residual is the least over all passing
\* cells, and which is the first such cell in scan order (min_x index, then
\* pzy index); the cell depends on the subject's fixed anchors and Max only,
\* so a second call gives the same result.
C22_FirstBestCellApplied ==
    /\ dialog.kind = "autofit_succeeded" =>
          /\ FirstBest[lsq, Cur.code].found
          /\ AppliedCell(Cur, FirstBest[lsq, Cur.code].cell)
          /\ auto_optimize_subject(lsq, Cur) = [ok |-> TRUE, s |-> Cur]
    /\ dialog.kind = "autofit_all_complete" =>
          \A i \in 1..Len(subjects) :
              (HasCurve(subjects[i])
                 /\ \A k \in 1..Len(dialog.failed) : dialog.failed[k] # subjects[i].name)
                => /\ FirstBest[lsq, subjects[i].code].found
                   /\ AppliedCell(subjects[i], FirstBest[lsq, subjects[i].code].cell)

\* Auto-Fit has succeeded on a subject whose least error is shared by
\* several passing cells, with a cell scanned earlier that fails the
\* derivative check and a passing cell scanned earlier with a larger error
C22_Witness ==
    /\ dialog.kind = "autofit_succeeded"
    /\ FirstBest[lsq, Cur.code].found
    /\ FirstBest[lsq, Cur.code].shared
    /\ FirstBest[lsq, Cur.code].after_failing
    /\ FirstBest[lsq, Cur.code].after_worse

-----------------------------------------------------------------------------
(* Part I.  Properties of dragging under any order of the callbacks        *)

\* C25 (as claimed): in every order of mouse press, mouse move, mouse
\* release and list selection, a mouse move changes min_x, pzx or pzy only
\* of a general subject with data; the anchors of no-data, applied and
\* vocational subjects are left as they are, also when the selection changes
\* between the press and the move.
C25_DragMovesOnlySubjectsWithData ==
    [][MouseMove =>
          \A i \in 1..Len(subjects) :
              ~HasCurve(subjects[i]) =>
                  /\ subjects'[i].min_x = subjects[i].min_x
                  /\ subjects'[i].pzx = subjects[i].pzx
                  /\ subjects'[i].pzy = subjects[i].pzy]_vars

-----------------------------------------------------------------------------
(* Part I.  _upload_pdf that fails while it builds the subjects            *)

\* _upload_pdf, an exception raised inside the try block after the
\* extraction (data['general'], build_general's numpy fits, build_applied,
\* data['vet'], build_vet): self.subjects = [] has run and n subjects have
\* been appended when the except branch shows the error
UploadPdfBuildError ==
    \E data \in Pdfs :
        \E n \in 0..(Len(Built[lsq, data]) - 1) :
            /\ subjects' = SubSeq(Built[lsq, data], 1, n)
            /\ dialog' = Dialog("pdf_error")
            /\ UNCHANGED <<current_idx, drag_type, pdf_loaded, lsq, buildvars,
                           scalevars, funvars>>

\* uploads (with either failure) and list selections, in any order; the
\* other specifications of the application follow the runs in which no
\* build raises
UploadNext ==
    \/ UploadPdf
    \/ UploadPdfError
    \/ UploadPdfBuildError
    \/ ListSelect
    \/ CommitAll

SpecUpload == AppInit /\ [][UploadNext]_vars

\* C27 (as claimed): an upload that ends in the error dialog leaves
\* subjects, current_idx and pdf_loaded as they were before it, so that
\* current_idx stays a valid index into subjects.
C27_FailedUploadKeepsState ==
    [][dialog'.kind = "pdf_error" /\ (UploadPdfError \/ UploadPdfBuildError)
          => /\ subjects' = subjects
             /\ current_idx' = current_idx
             /\ pdf_loaded' = pdf_loaded
             /\ subjects' # <<>> => current_idx' < Len(subjects')]_vars

-----------------------------------------------------------------------------
(* Part I.  Properties of committed subjects and of the stored fits        *)

\* the anchors that the operations move, and the fitted coefficients
Fitted(s) == <<s.min_x, s.pzx, s.pzy, s.X, s.Z>>

\* C28 (as claimed): a drag step, Auto-Fit, Auto-Fit All or Reset that
\* changes a subject's min_x, pzx, pzy or coefficients leaves that subject
\* with committed = False, so a subject's anchors and coefficients stay as
\* they are while its committed flag is True.
C28_ChangeClearsCommitted ==
    [][(subjects' # subjects
          /\ (MouseMove \/ AutoFitCurrent \/ AutoFitAll \/ ResetCurrent))
       => \A i \in 1..Len(subjects) :
              Fitted(subjects'[i]) # Fitted(subjects[i]) => ~subjects'[i].committed]_vars

\* C29: in every state of the application (after a build, a drag step, an
\* Auto-Fit, an Auto-Fit All, a Reset or a Commit has returned), every
\* general subject with data stores the quartic, the cubic and the
\* max_fit_error that compute_polynomials gives for its current eight
\* anchors.
C29_StoredFitIsOfCurrentAnchors ==
    \A i \in 1..Len(subjects) :
        HasCurve(subjects[i]) =>
            /\ subjects[i].X = fit_poly_4(lsq, x_all(subjects[i]), y_all(subjects[i]))
            /\ subjects[i].Z = fit_poly_3(SubSeq(x_all(subjects[i]), 1, 4),
                                          SubSeq(y_all(subjects[i]), 1, 4))
            /\ subjects[i].max_fit_error
                  = MaxResidual(subjects[i].X, x_all(subjects[i]), y_all(subjects[i]), 8)

\* Auto-Fit has succeeded on a subject and moved its Min and PZ away from
\* the build's, with a quartic that differs from the build's
C29_Witness ==
    /\ dialog.kind = "autofit_succeeded"
    /\ Cur.min_x # DefaultBoundary(Cur).min_x
    /\ Cur.pzy # DefaultBoundary(Cur).pzy
    /\ Cur.X # compute_polynomials(lsq, DefaultBoundary(Cur)).X
    /\ Cur.max_fit_error > 0


-----------------------------------------------------------------------------
(* Part II.  Properties of saving and loading again                        *)

\* the (rank-score, aggregate) pairs of a table, ascending by rank-score
PairsOf(res) ==
    [k \in 1..Len(res) |-> [atar |-> sort_by_atar(res, <<>>)[k].atar,
                            agg  |-> sort_by_atar(res, <<>>)[k].agg]]

\* C30 (as claimed): the step that saves the table for current_year and loads
\* the archive again returns, under current_year, exactly the pairs of the
\* saved table in ascending rank-score order, and under every other year what
\* was loaded from the archive before the save.
C30_SaveThenLoad ==
    [][pc = "save" /\ pc' = "lookup" =>
          /\ current_year \in DOMAIN historical_scales'
          /\ historical_scales'[current_year] = PairsOf(results)
          /\ DOMAIN historical_scales' \ {current_year}
                = DOMAIN load_historical_scales(archive) \ {current_year}
          /\ \A y \in DOMAIN historical_scales' \ {current_year} :
                historical_scales'[y] = load_historical_scales(archive)[y]]_vars


-----------------------------------------------------------------------------
(* Part II.  Properties of the spread of a range total                     *)

\* band_students as the k-th iteration of the table14 loop finds it
BeforeRange(k) ==
    range_loop(listed_bands(EmptyDict, tables.table13), SubSeq(tables.table14, 1, k - 1))

BandsInRange(k) == tables.table14[k].low..tables.table14[k].high
Unassigned(k) == BandsInRange(k) \ DOMAIN BeforeRange(k)
Remaining(k) ==
    tables.table14[k].total
        - SumOver(BeforeRange(k), BandsInRange(k) \cap DOMAIN BeforeRange(k))
Spreads(k) == Remaining(k) > 0 /\ Unassigned(k) # {}

\* C26: for every range whose total is spread (remaining > 0 and a band with
\* no count), the bands that get a count get naturals that sum to remaining,
\* any two differ by at most 1 and a higher band never gets less than a lower
\* one; every band that had a count when the range was reached still has it.
C26_RangeTotalSpreadEvenly ==
    pc \in AfterBlender \ {"bands"} =>
        \A k \in 1..Len(tables.table14) :
            /\ \A b \in DOMAIN BeforeRange(k) :
                  b \in DOMAIN band_students /\ band_students[b] = BeforeRange(k)[b]
            /\ Spreads(k) =>
                  /\ Unassigned(k) \subseteq DOMAIN band_students
                  /\ \A b \in Unassigned(k) : band_students[b] \in Nat
                  /\ SumOver(band_students, Unassigned(k)) = Remaining(k)
                  /\ \A b, c \in Unassigned(k) :
                        /\ band_students[b] - band_students[c] <= 1
                        /\ b > c => band_students[b] >= band_students[c]

\* a range with listed bands whose remainder does not divide evenly: the
\* highest band without a count got more than the lowest one
C26_Witness ==
    /\ pc = "cumulative"
    /\ \E k \in 1..Len(tables.table14) :
          /\ Spreads(k)
          /\ BandsInRange(k) \cap DOMAIN BeforeRange(k) # {}
          /\ \E b, c \in Unassigned(k) : b > c /\ band_students[b] > band_students[c]

=============================================================================
